---- MODULE Spec2Model ----
(***************************************************************************)
(* Model of the YouTube -> Twitch chat relay (youtube-relay/).             *)
(*                                                                         *)
(*   bot.py            YouTubeToTwitchBot: coordinator / consumer loop,    *)
(*                     spam guard (_is_rate_limited, _is_duplicate,        *)
(*                     _cleanup_spam_state)                                *)
(*   youtube_reader.py YouTubeChatReader: start/stop and the background    *)
(*                     thread _read_loop (producer)                        *)
(*   emoji_converter.py EmojiConverter.convert                             *)
(*   twitch_bot.py     TwitchBot.is_message_blocked / send_message,        *)
(*                     connect with validate_token,                        *)
(*                     validate_broadcaster_token, refresh_access_token,   *)
(*                     and is_channel_live                                 *)
(*                                                                         *)
(* Text is a sequence of one-character strings.  Time is time.time() in    *)
(* whole seconds.                                                          *)
(***************************************************************************)
EXTENDS Integers, Sequences, FiniteSets, TLC

\* ---------------------------------------------------------------------
\* Program constants
\* ---------------------------------------------------------------------
RATE_LIMIT_WINDOW == 30

RATE_LIMIT_MAX_MESSAGES == 3

DUPLICATE_WINDOW == 30

LIVE_CHECK_INTERVAL == 10

CLEANUP_INTERVAL == 60

TWITCH_MAX_LEN == 500

BACKOFF_FLOOR == 5

max_backoff == 300

maxsize == 0

DEFAULT_REFRESH_MINUTES == 30

\* ---------------------------------------------------------------------
\* Bounds of the model
\* ---------------------------------------------------------------------
MaxTime == 75

ScenarioMaxTime == 10

ReaderMaxTime == 20

MaxEvents == 4

MaxQueue == 3

MaxThreads == 2

MaxPollFails == 3

\* backoff sleeps counted since the last successful handshake
MaxSleeps == 8

\* seconds over which the spam guard is called on its own
SpamMaxTime == 60

\* WebSocketApp objects created in one run
MaxSockets == 3

\* longest chat text handed to collapse_emojis
MaxCollapseLen == 6

\* calls of collapse_emojis made one on the result of the other
CollapsePasses == 2

\* lengths of chat text tried on either side of the point where the
\* rendered line is 500 characters long
TruncateMargin == 60

\* seconds of a long run of the relay, past the default refresh interval
LongRunMaxTime == 2400

\* ---------------------------------------------------------------------
\* Text helpers (str methods and the regex of EmojiConverter)
\* ---------------------------------------------------------------------
LowerLetters ==
    <<"a", "b", "c", "d", "e", "f", "g", "h", "i", "j", "k", "l", "m",
      "n", "o", "p", "q", "r", "s", "t", "u", "v", "w", "x", "y", "z">>

UpperLetters ==
    <<"A", "B", "C", "D", "E", "F", "G", "H", "I", "J", "K", "L", "M",
      "N", "O", "P", "Q", "R", "S", "T", "U", "V", "W", "X", "Y", "Z">>

Range(f) == {f[i] : i \in DOMAIN f}

IndexOf(seq, c) == CHOOSE i \in DOMAIN seq : seq[i] = c

upper(c) == IF c \in Range(LowerLetters) THEN UpperLetters[IndexOf(LowerLetters, c)] ELSE c

lower(c) == IF c \in Range(UpperLetters) THEN LowerLetters[IndexOf(UpperLetters, c)] ELSE c

str_lower(s) == [i \in DOMAIN s |-> lower(s[i])]

\* `term in message`: substring test
Contains(s, t) == \E i \in 1..(Len(s) - Len(t) + 1) : SubSeq(s, i, i + Len(t) - 1) = t

\* character class [a-zA-Z0-9_-] of EmojiConverter._pattern
Digits == <<"0", "1", "2", "3", "4", "5", "6", "7", "8", "9">>

NameChars == Range(LowerLetters) \cup Range(UpperLetters) \cup Range(Digits) \cup {"_", "-"}

RECURSIVE NameRunEnd(_, _)
NameRunEnd(s, k) == IF k > Len(s) \/ s[k] \notin NameChars THEN k ELSE NameRunEnd(s, k + 1)

\* index of the closing colon of a match of :[a-zA-Z0-9_-]+: starting at i, 0 if none
MatchEnd(s, i) ==
    IF s[i] # ":" THEN 0
    ELSE LET k == NameRunEnd(s, i + 1)
         IN IF k > i + 1 /\ k <= Len(s) /\ s[k] = ":" THEN k ELSE 0

\* EmojiConverter.convert: replace_match applied by _pattern.sub, left to right
RECURSIVE SubMapped(_, _, _)
SubMapped(map, s, i) ==
    IF i > Len(s) THEN <<>>
    ELSE LET k == MatchEnd(s, i)
         IN IF k = 0 THEN <<s[i]>> \o SubMapped(map, s, i + 1)
            ELSE LET emoji == SubSeq(s, i, k)
                 IN (IF emoji \in DOMAIN map THEN map[emoji] ELSE emoji)
                        \o SubMapped(map, s, k + 1)

\* variant: the mapping is never applied
convert_identity(map, message) == message

convert(map, message) ==
    IF DOMAIN map = {} THEN message ELSE SubMapped(map, message, 1)

\* str(count)
RECURSIVE Decimal(_)
Decimal(n) == IF n < 10 THEN <<Digits[n + 1]>> ELSE Decimal(n \div 10) \o <<Digits[(n % 10) + 1]>>

\* _pattern.findall(message): the matches from position i on, left to right,
\* none overlapping another
RECURSIVE FindAll(_, _)
FindAll(s, i) ==
    IF i > Len(s) THEN <<>>
    ELSE LET k == MatchEnd(s, i)
         IN IF k = 0 THEN FindAll(s, i + 1)
            ELSE <<SubSeq(s, i, k)>> \o FindAll(s, k + 1)

\* counts[emoji]
CountOf(emoji, all_emojis) == Cardinality({j \in DOMAIN all_emojis : all_emojis[j] = emoji})

\* collapse_emojis, lines 71-89: replace_match applied by _pattern.sub from
\* position i on, with unique_order as it stands there
RECURSIVE SubCollapsed(_, _, _, _, _)
SubCollapsed(s, i, unique_order, all_emojis, max_unique) ==
    IF i > Len(s) THEN <<>>
    ELSE LET k == MatchEnd(s, i)
         IN IF k = 0
            THEN <<s[i]>> \o SubCollapsed(s, i + 1, unique_order, all_emojis, max_unique)
            ELSE LET emoji == SubSeq(s, i, k)
                     count == CountOf(emoji, all_emojis)
                 IN IF emoji \in Range(unique_order) \/ Len(unique_order) >= max_unique
                    THEN SubCollapsed(s, k + 1, unique_order, all_emojis, max_unique)
                    ELSE (IF count > 1
                          THEN emoji \o <<" ", "x">> \o Decimal(count) \o <<" ">>
                          ELSE emoji)
                         \o SubCollapsed(s, k + 1, Append(unique_order, emoji),
                                         all_emojis, max_unique)

\* collapse_emojis, line 91: re.sub(r"(?<=\S)(:[a-zA-Z0-9_-]+:)", r" \1", result)
\* from position i on; the lookbehind reads the character before the match in
\* the string being searched
RECURSIVE SpaceBeforeJammed(_, _)
SpaceBeforeJammed(s, i) ==
    IF i > Len(s) THEN <<>>
    ELSE LET k == MatchEnd(s, i)
         IN IF k # 0 /\ i > 1 /\ s[i - 1] # " "
            THEN <<" ">> \o SubSeq(s, i, k) \o SpaceBeforeJammed(s, k + 1)
            ELSE <<s[i]>> \o SpaceBeforeJammed(s, i + 1)

\* collapse_emojis, line 92: re.sub(r"  +", " ", result)
RECURSIVE SqueezeSpaces(_)
SqueezeSpaces(s) ==
    IF Len(s) < 2 THEN s
    ELSE IF s[1] = " " /\ s[2] = " " THEN SqueezeSpaces(Tail(s))
    ELSE <<s[1]>> \o SqueezeSpaces(Tail(s))

\* str.strip()
RECURSIVE strip(_)
strip(s) ==
    IF s = <<>> THEN s
    ELSE IF s[1] = " " THEN strip(Tail(s))
    ELSE IF s[Len(s)] = " " THEN strip(SubSeq(s, 1, Len(s) - 1))
    ELSE s

\* EmojiConverter.collapse_emojis (emoji_converter.py 55-93)
collapse_emojis(message, max_unique) ==
    LET all_emojis == FindAll(message, 1)
    IN IF all_emojis = <<>> THEN message
       ELSE strip(SqueezeSpaces(SpaceBeforeJammed(
                SubCollapsed(message, 1, <<>>, all_emojis, max_unique), 1)))

\* bot.py 267-268: capitalize the first letter
capitalize_first(message_text) ==
    IF message_text # <<>>
    THEN <<upper(message_text[1])>> \o SubSeq(message_text, 2, Len(message_text))
    ELSE message_text

\* message_format.format(author=..., message=...) with the default template
message_format(author, message) ==
    <<"[", "Y", "T", "]", " ">> \o author \o <<":", " ">> \o message

\* variant: the ellipsis is appended to the first 500 characters
truncate_at_limit(formatted_msg) ==
    IF Len(formatted_msg) > TWITCH_MAX_LEN
    THEN SubSeq(formatted_msg, 1, TWITCH_MAX_LEN) \o <<".", ".", ".">>
    ELSE formatted_msg

\* bot.py 290-291
truncate(formatted_msg) ==
    IF Len(formatted_msg) > TWITCH_MAX_LEN
    THEN SubSeq(formatted_msg, 1, TWITCH_MAX_LEN - 3) \o <<".", ".", ".">>
    ELSE formatted_msg

\* fetch_blocked_terms, line 77: [item['text'].lower() for item in ...]
load_terms(texts) == [i \in DOMAIN texts |-> str_lower(texts[i])]

\* the terms of all pages, in order
RECURSIVE AllTerms(_)
AllTerms(pages) ==
    IF pages = <<>> THEN <<>> ELSE load_terms(Head(pages).texts) \o AllTerms(Tail(pages))

\* the pages answered with 200 before the first one that was not
RECURSIVE PagesBeforeFailure(_)
PagesBeforeFailure(pages) ==
    IF pages = <<>> \/ Head(pages).status # "200" THEN <<>>
    ELSE <<Head(pages)>> \o PagesBeforeFailure(Tail(pages))

\* variant: the terms gathered before a failed page are stored
fetch_blocked_terms_partial(old, pages) == AllTerms(PagesBeforeFailure(pages))

\* TwitchBot.fetch_blocked_terms (twitch_bot.py 49-114): the value of
\* self.blocked_terms after the call.  pages are the answers to the requests
\* the loop makes, each with its status ("no_answer" for a RequestException)
\* and the entries it lists; every page but the last carries a cursor.  Only
\* when every page was answered with 200 is self.blocked_terms assigned.
fetch_blocked_terms(old, pages) ==
    IF \A i \in DOMAIN pages : pages[i].status = "200" THEN AllTerms(pages) ELSE old

\* a one-page answer listing texts
OnePage(texts) == <<[status |-> "200", texts |-> texts]>>

\* variant: the message is compared as it is written
is_message_blocked_as_written(terms, message) ==
    IF terms = <<>> THEN <<FALSE, <<>>>>
    ELSE LET hits == {i \in DOMAIN terms : Contains(message, terms[i])}
         IN IF hits = {} THEN <<FALSE, <<>>>>
            ELSE <<TRUE, terms[CHOOSE i \in hits : \A j \in hits : i <= j]>>

\* TwitchBot.is_message_blocked: <<is_blocked, matched_term>>
is_message_blocked(terms, message) ==
    IF terms = <<>> THEN <<FALSE, <<>>>>
    ELSE LET message_lower == str_lower(message)
             hits == {i \in DOMAIN terms : Contains(message_lower, terms[i])}
         IN IF hits = {} THEN <<FALSE, <<>>>>
            ELSE <<TRUE, terms[CHOOSE i \in hits : \A j \in hits : i <= j]>>

\* ---------------------------------------------------------------------
\* Inputs
\* ---------------------------------------------------------------------
Alice == <<"A", "l", "i", "c", "e">>

Bob == <<"B", "o", "b">>

HelloWave == <<"H", "E", "L", "L", "O", " ", ":", "w", "a", "v", "e", ":">>

Hi == <<"h", "i">>

Yo == <<"y", "o">>

WaveCode == <<":", "w", "a", "v", "e", ":">>

WaveSymbol == <<"o", "/">>

Event(a, m) == [author |-> a, message |-> m]

\* moderation list entries and chat lines
BadWord == <<"b", "a", "d", "w", "o", "r", "d">>

BadWordCapital == <<"B", "a", "d", "W", "o", "r", "d">>

FooBarEntry == <<"/", "f", "[", "u", "o", "]", "+", "b", "a", "r", "/", "i">>

FooBarSource == <<"f", "[", "u", "o", "]", "+", "b", "a", "r">>

FooBarMessage ==
    <<"t", "h", "i", "s", " ", "h", "a", "s", " ", "a", " ", "F", "o", "o", "B", "a", "r", " ", "i", "n", " ", "i", "t">>

QuotedEntryMessage ==
    <<"b", "a", "d", "w", "o", "r", "d", " ", "/", "f", "[", "u", "o", "]", "+", "b", "a", "r", "/", "i">>

ShoutedMessage == <<"a", " ", "B", "A", "D", "W", "O", "R", "D">>


\* ---------------------------------------------------------------------
\* State
\* ---------------------------------------------------------------------
VARIABLES
    now,                     \* time.time()
    rate_limit_max,          \* module global RATE_LIMIT_MAX_MESSAGES as configured
    mappings,                \* EmojiConverter._mappings
    blocked_terms,           \* TwitchBot.blocked_terms
    queue,                   \* YouTubeChatReader.queue
    yt_running,              \* YouTubeChatReader.running
    threads,                 \* reader threads ever started by start(), in order
    bot_running,             \* YouTubeToTwitchBot.running
    cpc,                     \* position of the coordinator in start()
    was_live,                \* local was_live of start()
    last_twitch_live_check,  \* local of start()
    last_cleanup,            \* local of start()
    user_timestamps,         \* YouTubeToTwitchBot._user_timestamps
    user_last_message,       \* YouTubeToTwitchBot._user_last_message
    history,                 \* log: one record per dequeued event with its outcome
    twitch,                  \* TwitchBot: the tokens, refresh tokens and client secret
    last_status,             \* log: what the last read of stream-status.json found
    exception,               \* the exception that ended start(), "none" if none
    connect_log,             \* log: the last call of TwitchBot.connect()
    probe,                   \* log: the last call of a function examined on its own
    blocked_terms_refresh_minutes  \* YouTubeToTwitchBot.blocked_terms_refresh_minutes

vars == <<now, rate_limit_max, mappings, blocked_terms, queue, yt_running, threads,
          bot_running, cpc, was_live, last_twitch_live_check, last_cleanup,
          user_timestamps, user_last_message, history,
          twitch, last_status, exception, connect_log, probe,
          blocked_terms_refresh_minutes>>

coordVars == <<bot_running, cpc, was_live, last_twitch_live_check, last_cleanup,
               last_status, exception>>

spamVars == <<user_timestamps, user_last_message>>

configVars == <<rate_limit_max, mappings, blocked_terms, twitch, connect_log, probe,
                blocked_terms_refresh_minutes>>

\* dict assignment d[k] = v
DictSet(d, k, v) == [x \in (DOMAIN d) \cup {k} |-> IF x = k THEN v ELSE d[x]]

\* del d[k] for every k in ks
DictDel(d, ks) == [x \in (DOMAIN d) \ ks |-> d[x]]

EmptyDict == [x \in {} |-> 0]

Min(a, b) == IF a < b THEN a ELSE b

\* ---------------------------------------------------------------------
\* Spam guard (bot.py 69-124)
\* ---------------------------------------------------------------------
\* the pruning comprehension of _is_rate_limited: [t for t in ... if t > cutoff]
Prune(timestamps, cutoff) == SelectSeq(timestamps, LAMBDA t : t > cutoff)

\* variant: a blocked attempt is recorded too
is_rate_limited_recording(ts, author, t) ==
    LET cutoff == t - RATE_LIMIT_WINDOW
        old == IF author \in DOMAIN ts THEN ts[author] ELSE <<>>
        timestamps == Prune(old, cutoff)
    IN IF Len(timestamps) >= rate_limit_max
       THEN [limited |-> TRUE, ts |-> DictSet(ts, author, Append(timestamps, t))]
       ELSE [limited |-> FALSE, ts |-> DictSet(ts, author, Append(timestamps, t))]

\* variant: the limit test written with > instead of >=
is_rate_limited_gt(ts, author, t) ==
    LET cutoff == t - RATE_LIMIT_WINDOW
        old == IF author \in DOMAIN ts THEN ts[author] ELSE <<>>
        timestamps == Prune(old, cutoff)
    IN IF Len(timestamps) > rate_limit_max
       THEN [limited |-> TRUE, ts |-> DictSet(ts, author, timestamps)]
       ELSE [limited |-> FALSE, ts |-> DictSet(ts, author, Append(timestamps, t))]

\* _is_rate_limited(author) at time t: the value returned and the new _user_timestamps
is_rate_limited(ts, author, t) ==
    LET cutoff == t - RATE_LIMIT_WINDOW
        old == IF author \in DOMAIN ts THEN ts[author] ELSE <<>>
        timestamps == Prune(old, cutoff)
    IN IF Len(timestamps) >= rate_limit_max
       THEN [limited |-> TRUE, ts |-> DictSet(ts, author, timestamps)]
       ELSE [limited |-> FALSE, ts |-> DictSet(ts, author, Append(timestamps, t))]

\* variant: the age test written with <= instead of <
WithinDuplicateWindow_le(t, last_time) == (t - last_time) <= DUPLICATE_WINDOW

\* the age test of _is_duplicate: (now - last_time) < DUPLICATE_WINDOW
WithinDuplicateWindow(t, last_time) == (t - last_time) < DUPLICATE_WINDOW

\* variant: a duplicate renews the stored timestamp
is_duplicate_renewing(lm, author, message, t) ==
    IF /\ author \in DOMAIN lm
       /\ lm[author][1] = message
       /\ WithinDuplicateWindow(t, lm[author][2])
    THEN [dup |-> TRUE, lm |-> DictSet(lm, author, <<message, t>>)]
    ELSE [dup |-> FALSE, lm |-> DictSet(lm, author, <<message, t>>)]

\* _is_duplicate(author, message) at time t: the value returned and the new _user_last_message
is_duplicate(lm, author, message, t) ==
    IF /\ author \in DOMAIN lm
       /\ lm[author][1] = message
       /\ WithinDuplicateWindow(t, lm[author][2])
    THEN [dup |-> TRUE, lm |-> lm]
    ELSE [dup |-> FALSE, lm |-> DictSet(lm, author, <<message, t>>)]

\* variant: every last-message entry older than now is taken for stale
cleanup_last_message_any(lm, t) ==
    LET stale_msgs == {u \in DOMAIN lm : (t - lm[u][2]) > 0}
    IN DictDel(lm, stale_msgs)

\* _cleanup_spam_state at time t
cleanup_timestamps(ts, t) ==
    LET cutoff == t - RATE_LIMIT_WINDOW
        stale_users == {u \in DOMAIN ts : ts[u] = <<>> \/ ts[u][Len(ts[u])] < cutoff}
    IN DictDel(ts, stale_users)

cleanup_last_message(lm, t) ==
    LET stale_msgs == {u \in DOMAIN lm : (t - lm[u][2]) > DUPLICATE_WINDOW}
    IN DictDel(lm, stale_msgs)

\* ---------------------------------------------------------------------
\* Reader thread (youtube_reader.py 41-49, 211-265)
\* ---------------------------------------------------------------------
\* parsed counts the messages this thread has parsed so far; it numbers the
\* events (src, seq) so that one event can be followed through the relay;
\* sleeps counts the backoff sleeps since _get_initial_chat_data last returned
NewThread == [pc |-> "loop_top", backoff |-> BACKOFF_FLOOR, continuation |-> FALSE,
              new_continuation |-> FALSE, batch |-> <<>>, pollFails |-> 0, parsed |-> 0,
              sleeps |-> 0]

ExitedThread == [NewThread EXCEPT !.pc = "exit"]

\* states in which the thread is inside a blocking call
BlockingStates == {"locating", "handshaking", "polling", "poll_sleeping", "backoff_sleep"}

Alive(t) == threads[t].pc # "exit"

\* events held anywhere between the reader and the consumer's log
RECURSIVE SumBatches(_)
SumBatches(n) == IF n = 0 THEN 0 ELSE Len(threads[n].batch) + SumBatches(n - 1)

EventsInSystem == Len(history) + Len(queue) + SumBatches(Len(threads))

\* YouTubeChatReader.start(): set the flag, spawn a thread running _read_loop
reader_start_threads == Append(threads, NewThread)

reader_start_running == TRUE

\* variant: stop() leaves the flag set
reader_stop_running_noop == yt_running

\* YouTubeChatReader.stop(): the value given to self.running
reader_stop_running == FALSE


\* ---------------------------------------------------------------------
\* TwitchBot credentials and connect() (twitch_bot.py 15-47, 214-374)
\* ---------------------------------------------------------------------
None == "None"

\* TwitchBot.__init__ (lines 32-37): without a broadcaster token the bot token
\* is used for both roles
TwitchBot_init(oauth, broadcaster, secret, bot_refresh, broadcaster_refresh) ==
    [oauth_token |-> oauth,
     broadcaster_oauth_token |-> IF broadcaster # None THEN broadcaster ELSE oauth,
     client_secret |-> secret,
     bot_refresh_token |-> bot_refresh,
     broadcaster_refresh_token |-> broadcaster_refresh,
     last_blocked_terms_refresh |-> 0,
     blocked_terms_refresh_interval |-> 0,
     blacklist_check_interval |-> None]

\* what the token endpoint hands out for a refresh token
Refreshed(refresh_token) ==
    IF refresh_token = "bot_refresh_0" THEN <<"bot_1", "bot_refresh_1">>
    ELSE <<"broadcaster_1", "broadcaster_refresh_1">>

\* The identity service and the EventSub endpoint during one connect():
\* valid is the set of access tokens /oauth2/validate accepts (any other gets
\* 401), net whether /oauth2/validate answers at all, refresh_ok whether the
\* refresh_token grant is answered with 200, ws whether session_welcome
\* arrives within 10 s.
Servers ==
    [valid : SUBSET {"bot_0", "broadcaster_0"}, net : BOOLEAN,
     refresh_ok : BOOLEAN, ws : BOOLEAN]

HealthyServer ==
    [valid |-> {"bot_0", "broadcaster_0"}, net |-> TRUE, refresh_ok |-> TRUE, ws |-> TRUE]

\* the answer of GET /oauth2/validate for a token
validate_status(token, srv) ==
    IF ~srv.net THEN "no_answer" ELSE IF token \in srv.valid THEN "200" ELSE "401"

\* refresh_access_token (lines 214-253): None, or the new pair of tokens
refresh_access_token(tw, refresh_token, srv) ==
    IF tw.client_secret = None \/ refresh_token = None THEN None
    ELSE IF ~srv.net \/ ~srv.refresh_ok THEN None
    ELSE Refreshed(refresh_token)

\* validate_token (lines 255-291): the result and the TwitchBot fields after it
validate_token(tw, srv) ==
    LET status == validate_status(tw.oauth_token, srv)
    IN IF status = "401" /\ tw.bot_refresh_token # None
       THEN LET result == refresh_access_token(tw, tw.bot_refresh_token, srv)
            IN IF result # None
               THEN [ok |-> TRUE,
                     tw |-> [tw EXCEPT !.oauth_token = result[1],
                                       !.bot_refresh_token = result[2]]]
               ELSE [ok |-> FALSE, tw |-> tw]
       ELSE [ok |-> status = "200", tw |-> tw]

\* validate_broadcaster_token (lines 293-333)
validate_broadcaster_token(tw, srv) ==
    IF tw.broadcaster_oauth_token = tw.oauth_token
    THEN [ok |-> TRUE, tw |-> tw]
    ELSE LET status == validate_status(tw.broadcaster_oauth_token, srv)
         IN IF status = "401" /\ tw.broadcaster_refresh_token # None
            THEN LET result == refresh_access_token(tw, tw.broadcaster_refresh_token, srv)
                 IN IF result # None
                    THEN [ok |-> TRUE,
                          tw |-> [tw EXCEPT !.broadcaster_oauth_token = result[1],
                                            !.broadcaster_refresh_token = result[2]]]
                    ELSE [ok |-> FALSE, tw |-> tw]
            ELSE [ok |-> status = "200", tw |-> tw]

BotTokenError == "Bot OAuth token validation failed"

BroadcasterTokenError == "Broadcaster OAuth token validation failed"

WebSocketError == "Failed to connect to Twitch WebSocket within timeout"

\* connect (lines 335-374) at time t: error is the message of the exception
\* raised, "none" if connect() returns; tw the TwitchBot fields after the call
connect(tw, srv, t) ==
    LET b == validate_token(tw, srv)
        c == validate_broadcaster_token(b.tw, srv)
    IN IF ~b.ok THEN [error |-> BotTokenError, tw |-> b.tw]
       ELSE IF ~c.ok THEN [error |-> BroadcasterTokenError, tw |-> c.tw]
       ELSE IF ~srv.ws THEN [error |-> WebSocketError, tw |-> c.tw]
       ELSE [error |-> "none", tw |-> [c.tw EXCEPT !.last_blocked_terms_refresh = t]]

NoConnect == [called |-> FALSE]

\* ---------------------------------------------------------------------
\* TwitchBot.is_channel_live (twitch_bot.py 150-212)
\* ---------------------------------------------------------------------
\* GET /helix/streams: no answer (timeout, connection error), an error status
\* (raise_for_status), a 200 whose body is not JSON, is JSON but no object,
\* holds an entry that is no object, holds a live stream, holds a stream
\* that is not live, holds no stream
StreamsAnswers ==
    {"no_answer", "http_error", "not_json", "not_object", "entry_not_object",
     "live", "not_live", "empty"}

\* GET /helix/users: no answer, a status other than 200, a 200 whose body is
\* not JSON, is JSON but no object, holds the user, holds no user, holds a
\* user without login
UsersAnswers ==
    {"no_answer", "http_error", "not_json", "not_object", "user", "empty", "no_login"}

\* what the streams answer does to lines 162-187: the exception raised, or
\* "True" for a live stream, or "next" when the user lookup follows
streams_step(streams) ==
    CASE streams \in {"no_answer", "http_error", "not_json"} -> "RequestException"
      [] streams \in {"not_object", "entry_not_object"} -> "AttributeError"
      [] streams = "live" -> "True"
      [] OTHER -> "next"

\* what the users answer does to lines 190-207
users_step(users) ==
    CASE users \in {"no_answer", "not_json"} -> "RequestException"
      [] users = "not_object" -> "AttributeError"
      [] users = "no_login" -> "KeyError"
      [] OTHER -> "False"

\* is_channel_live: "True", "False", or the exception that leaves the call;
\* only RequestException is caught (line 209) and turned into True
is_channel_live(streams, users) ==
    LET first == streams_step(streams)
        out == IF first = "next" THEN users_step(users) ELSE first
    IN IF out = "RequestException" THEN "True" ELSE out

NoProbe == [called |-> FALSE]

\* one call of is_channel_live; it changes no field of TwitchBot
IsChannelLive(streams, users, debug) ==
    /\ probe' = [called |-> TRUE, streams |-> streams, users |-> users, debug |-> debug,
                 lookup |-> streams_step(streams) = "next",
                 result |-> is_channel_live(streams, users)]
    /\ UNCHANGED <<now, rate_limit_max, mappings, blocked_terms, twitch, connect_log,
                   blocked_terms_refresh_minutes,
                   queue, yt_running, threads, coordVars, spamVars, history>>

\* one call of fetch_blocked_terms answered by pages; the log keeps the
\* answers and the list held before the call
FetchBlockedTerms(pages) ==
    /\ blocked_terms' = fetch_blocked_terms(blocked_terms, pages)
    /\ probe' = [called |-> TRUE, fn |-> "fetch_blocked_terms", pages |-> pages,
                 before |-> blocked_terms, message |-> <<>>, terms |-> <<>>,
                 result |-> <<FALSE, <<>>>>]
    /\ UNCHANGED <<now, rate_limit_max, mappings, twitch, connect_log,
                   blocked_terms_refresh_minutes,
                   queue, yt_running, threads, coordVars, spamVars, history>>

\* one call of is_message_blocked, which reads self.blocked_terms and changes
\* nothing; the log keeps the answers of the last fetch beside the call
IsMessageBlocked(message) ==
    /\ probe.called
    /\ probe' = [probe EXCEPT !.fn = "is_message_blocked", !.message = message,
                              !.terms = blocked_terms,
                              !.result = is_message_blocked(blocked_terms, message)]
    /\ UNCHANGED <<now, rate_limit_max, mappings, blocked_terms, twitch, connect_log,
                   blocked_terms_refresh_minutes,
                   queue, yt_running, threads, coordVars, spamVars, history>>


\* ---------------------------------------------------------------------
\* Coordinator: YouTubeToTwitchBot.start (bot.py 175-325)
\* ---------------------------------------------------------------------
\* what a read of data/stream-status.json can find: some channel with
\* live: true, an object with no such channel, no file, a file that cannot be
\* read, a file that is not JSON, JSON that is not an object
StatusReadings == {"live", "offline", "missing", "unreadable", "bad_json", "not_object"}

\* variant: a file that cannot be read counts as live
read_stream_status_fail_open(status) ==
    [raised |-> status = "not_object",
     live |-> status \in {"live", "missing", "unreadable", "bad_json"}]

\* _read_stream_status (bot.py 126-145): FileNotFoundError, JSONDecodeError and
\* OSError give False; data.items() on JSON that is not an object raises
\* AttributeError, which nothing catches
read_stream_status(status) ==
    [raised |-> status = "not_object", live |-> status = "live"]

\* Lines 187-212.  status is what _read_stream_status() finds: while it
\* returns False the coordinator stays in wait_for_stream_start.  srv is the
\* behaviour of the servers during twitch.connect(), pages the answers to
\* the fetch_blocked_terms() at its end.  Lines 189-198 are outside the try
\* of start(): an exception of _read_stream_status or connect() ends start()
\* there.  Line 202 stores the configured interval in the attribute
\* _blacklist_check_interval.
Start(status, pages, srv) ==
    /\ cpc \in {"init", "waiting"}
    /\ cpc = "waiting" => bot_running
    /\ bot_running' = TRUE
    /\ last_status' = status
    /\ LET r == read_stream_status(status)
           c == connect(twitch, srv, now)
       IN IF r.raised
          THEN /\ cpc' = "crashed"
               /\ exception' = "AttributeError"
               /\ UNCHANGED <<blocked_terms, yt_running, threads, was_live,
                              last_twitch_live_check, last_cleanup, twitch, connect_log>>
          ELSE IF ~r.live
          THEN /\ cpc' = "waiting"
               /\ UNCHANGED <<blocked_terms, yt_running, threads, was_live, exception,
                              last_twitch_live_check, last_cleanup, twitch, connect_log>>
          ELSE /\ connect_log' = [called |-> TRUE, srv |-> srv, before |-> twitch,
                                  error |-> c.error]
               /\ IF c.error # "none"
                  THEN /\ cpc' = "crashed"
                       /\ exception' = c.error
                       /\ twitch' = c.tw
                       /\ UNCHANGED <<blocked_terms, yt_running, threads, was_live,
                                      last_twitch_live_check, last_cleanup>>
                  ELSE /\ cpc' = "loop"
                       /\ blocked_terms' = fetch_blocked_terms(blocked_terms, pages)
                       /\ twitch' = [c.tw EXCEPT !.blacklist_check_interval =
                                                     blocked_terms_refresh_minutes * 60]
                       /\ yt_running' = reader_start_running
                       /\ threads' = reader_start_threads
                       /\ was_live' = TRUE
                       /\ last_twitch_live_check' = now
                       /\ last_cleanup' = now
                       /\ UNCHANGED exception
    /\ UNCHANGED <<now, rate_limit_max, mappings, queue, spamVars, history, probe,
                   blocked_terms_refresh_minutes>>

\* variant: only a negative interval disables the refresh
refresh_blocked_terms_if_needed_nonneg(tw, terms, t, pages) ==
    IF tw.blocked_terms_refresh_interval < 0
    THEN [tw |-> tw, terms |-> terms, fetches |-> 0]
    ELSE IF t - tw.last_blocked_terms_refresh >= tw.blocked_terms_refresh_interval
    THEN [tw |-> [tw EXCEPT !.last_blocked_terms_refresh = t],
          terms |-> fetch_blocked_terms(terms, pages), fetches |-> 1]
    ELSE [tw |-> tw, terms |-> terms, fetches |-> 0]

\* TwitchBot.refresh_blocked_terms_if_needed (twitch_bot.py 136-148) at time
\* t: the TwitchBot fields and the term list after the call, and the number
\* of fetch_blocked_terms calls made
refresh_blocked_terms_if_needed(tw, terms, t, pages) ==
    IF tw.blocked_terms_refresh_interval <= 0
    THEN [tw |-> tw, terms |-> terms, fetches |-> 0]
    ELSE IF t - tw.last_blocked_terms_refresh >= tw.blocked_terms_refresh_interval
    THEN [tw |-> [tw EXCEPT !.last_blocked_terms_refresh = t],
          terms |-> fetch_blocked_terms(terms, pages), fetches |-> 1]
    ELSE [tw |-> tw, terms |-> terms, fetches |-> 0]

\* bot.py 284-291 on their own: the line is rendered and truncated
RenderAndTruncate(author, message_text) ==
    /\ probe' = [called |-> TRUE, fn |-> "truncate", author |-> author,
                 message |-> message_text,
                 rendered |-> message_format(author, message_text),
                 result |-> truncate(message_format(author, message_text))]
    /\ UNCHANGED <<now, rate_limit_max, mappings, blocked_terms, twitch, connect_log,
                   blocked_terms_refresh_minutes,
                   queue, yt_running, threads, coordVars, spamVars, history>>

\* one call of collapse_emojis, which changes no field of the converter: the
\* first on the message drawn, a later one on the result of the call before
CollapseEmojis ==
    /\ probe.fn = "collapse_emojis"
    /\ probe.passes < CollapsePasses
    /\ LET message == IF probe.passes = 0 THEN probe.message ELSE probe.result
       IN probe' = [probe EXCEPT !.called = TRUE, !.passes = probe.passes + 1,
                                 !.message = message,
                                 !.result = collapse_emojis(message, probe.max_unique)]
    /\ UNCHANGED <<now, rate_limit_max, mappings, blocked_terms, twitch, connect_log,
                   blocked_terms_refresh_minutes,
                   queue, yt_running, threads, coordVars, spamVars, history>>

\* the last times (at most rate_limit_max of them) at which _is_rate_limited
\* returned False for the author, the newest last
NoteAllowed(allowed, author, t) ==
    LET old == IF author \in DOMAIN allowed THEN allowed[author] ELSE <<>>
        all == Append(old, t)
    IN DictSet(allowed, author,
               IF Len(all) > rate_limit_max THEN Tail(all) ELSE all)

\* the spam guard called on its own.  Beside the dictionaries of the bot the
\* log keeps a second pair of dictionaries that receives the same calls of
\* _is_duplicate and _is_rate_limited but is never cleaned up; allowed and
\* blocked keep, per author, the times of the last allowed attempts and of the
\* last blocked attempt.
NoSpamCall ==
    [called |-> FALSE, fn |-> "none", author |-> <<>>, message |-> <<>>, time |-> 0,
     result |-> FALSE, uncleaned_result |-> FALSE,
     uncleaned_timestamps |-> EmptyDict, uncleaned_last_message |-> EmptyDict,
     allowed |-> EmptyDict, allowed_before |-> <<>>, blocked |-> EmptyDict,
     cleaned |-> {}]

\* one call of _is_duplicate(author, message) at the current time
IsDuplicate(author, message) ==
    LET d == is_duplicate(user_last_message, author, message, now)
        u == is_duplicate(probe.uncleaned_last_message, author, message, now)
    IN /\ user_last_message' = d.lm
       /\ probe' = [probe EXCEPT !.called = TRUE, !.fn = "is_duplicate", !.author = author,
                                 !.message = message, !.time = now, !.result = d.dup,
                                 !.uncleaned_result = u.dup,
                                 !.uncleaned_last_message = u.lm]
       /\ UNCHANGED <<now, rate_limit_max, mappings, blocked_terms, twitch, connect_log,
                      blocked_terms_refresh_minutes, user_timestamps,
                      queue, yt_running, threads, coordVars, history>>

\* one call of _is_rate_limited(author) at the current time
IsRateLimited(author) ==
    LET r == is_rate_limited(user_timestamps, author, now)
        u == is_rate_limited(probe.uncleaned_timestamps, author, now)
        before == IF author \in DOMAIN probe.allowed THEN probe.allowed[author] ELSE <<>>
    IN /\ user_timestamps' = r.ts
       /\ probe' = [probe EXCEPT !.called = TRUE, !.fn = "is_rate_limited", !.author = author,
                                 !.message = <<>>, !.time = now, !.result = r.limited,
                                 !.uncleaned_result = u.limited,
                                 !.uncleaned_timestamps = u.ts,
                                 !.allowed_before = before,
                                 !.allowed = IF r.limited THEN @
                                             ELSE NoteAllowed(@, author, now),
                                 !.blocked = IF r.limited THEN DictSet(@, author, now)
                                             ELSE @]
       /\ UNCHANGED <<now, rate_limit_max, mappings, blocked_terms, twitch, connect_log,
                      blocked_terms_refresh_minutes, user_last_message,
                      queue, yt_running, threads, coordVars, history>>

\* --- connect() and disconnect() against the WebSocket thread's callbacks ---
\* every variable but the log of the calls stays as it is
OnlyProbe ==
    UNCHANGED <<now, rate_limit_max, mappings, blocked_terms, twitch, connect_log,
                blocked_terms_refresh_minutes, queue, yt_running, threads, coordVars,
                spamVars, history>>

\* the connection fields after TwitchBot.__init__ (twitch_bot.py 40-43: ws None,
\* connected False, running False), the position of the main thread in
\* connect(), the WebSocketApp objects created so far with the state of their
\* threads, and what the last return of connect() found: the socket it had
\* opened and whether session_welcome had arrived on it
NoConnection ==
    [called |-> FALSE, fn |-> "connect", pc |-> "idle", connected |-> FALSE,
     running |-> FALSE, ws |-> 0, sockets |-> <<>>,
     returned |-> FALSE, returned_ws |-> 0, returned_welcomed |-> FALSE, raised |-> FALSE]

\* a WebSocketApp whose thread has just been started
NewSocket == [state |-> "open", welcomed |-> FALSE]

\* connect(), lines 335-359: tokens validated, a new WebSocketApp is stored in
\* self.ws, running is set and the thread of run_forever is started; the
\* connected flag is not assigned.  connect() is called at startup (bot.py
\* 198) and by the reconnect handler right after disconnect() (bot.py 310-311)
ConnectBegin ==
    /\ ~probe.called \/ probe.pc = "disconnected"
    /\ Len(probe.sockets) < MaxSockets
    /\ probe' = [probe EXCEPT !.called = TRUE, !.pc = "waiting", !.running = TRUE,
                              !.sockets = Append(@, NewSocket),
                              !.ws = Len(probe.sockets) + 1,
                              !.returned = FALSE, !.raised = FALSE]
    /\ OnlyProbe

\* connect(), lines 362-365: the wait loop ends because the flag is set or the
\* 10 s are over
ConnectWaitEnds(expired) ==
    /\ probe.pc = "waiting"
    /\ probe.connected \/ expired
    /\ probe' = [probe EXCEPT !.pc = "checking"]
    /\ OnlyProbe

\* connect(), lines 367-374: the flag is read again; connect() raises or returns
ConnectCheck ==
    /\ probe.pc = "checking"
    /\ IF ~probe.connected
       THEN probe' = [probe EXCEPT !.pc = "idle", !.raised = TRUE]
       ELSE probe' = [probe EXCEPT !.pc = "connected", !.returned = TRUE,
                                   !.returned_ws = probe.ws,
                                   !.returned_welcomed = probe.sockets[probe.ws].welcomed]
    /\ OnlyProbe

\* disconnect() (twitch_bot.py 542-547) as called by the reconnect handler
\* (bot.py 310) before connect(): running is cleared and self.ws is closed;
\* _on_close runs later, in the thread of that socket
Disconnect ==
    /\ probe.called
    /\ probe.pc \in {"idle", "connected"}
    /\ probe' = [probe EXCEPT !.pc = "disconnected", !.running = FALSE,
                              !.sockets = IF probe.ws = 0 THEN @
                                          ELSE [@ EXCEPT ![probe.ws].state =
                                                   IF @ = "open" THEN "closing" ELSE @]]
    /\ OnlyProbe

\* _on_message with a session_welcome (twitch_bot.py 380-393), in the thread
\* of socket s: the first message a socket receives
OnWelcome(s) ==
    /\ s \in DOMAIN probe.sockets
    /\ probe.sockets[s].state = "open"
    /\ ~probe.sockets[s].welcomed
    /\ probe' = [probe EXCEPT !.connected = TRUE, !.sockets[s].welcomed = TRUE]
    /\ OnlyProbe

\* _on_close (twitch_bot.py 420-423), in the thread of socket s, after
\* close() or after the connection was lost
OnClose(s) ==
    /\ s \in DOMAIN probe.sockets
    /\ probe.sockets[s].state \in {"open", "closing"}
    /\ probe' = [probe EXCEPT !.connected = FALSE, !.sockets[s].state = "closed"]
    /\ OnlyProbe

\* one call of _cleanup_spam_state at the current time; cleaned collects the
\* authors it has removed an entry of
CleanupSpamState ==
    /\ user_timestamps' = cleanup_timestamps(user_timestamps, now)
    /\ user_last_message' = cleanup_last_message(user_last_message, now)
    /\ probe' = [probe EXCEPT !.cleaned = @ \cup (DOMAIN user_timestamps \ DOMAIN user_timestamps')
                                            \cup (DOMAIN user_last_message
                                                      \ DOMAIN user_last_message')]
    /\ UNCHANGED <<now, rate_limit_max, mappings, blocked_terms, twitch, connect_log,
                   blocked_terms_refresh_minutes,
                   queue, yt_running, threads, coordVars, history>>

\* the owner of the TwitchBot sets the attribute the refresh reads
\* (twitch_bot.py 47: "Set by main bot from config")
SetRefreshInterval(seconds) ==
    /\ twitch' = [twitch EXCEPT !.blocked_terms_refresh_interval = seconds]
    /\ UNCHANGED <<now, rate_limit_max, mappings, blocked_terms, connect_log, probe,
                   blocked_terms_refresh_minutes,
                   queue, yt_running, threads, coordVars, spamVars, history>>

\* one call of refresh_blocked_terms_if_needed on its own; mtime_changed
\* tells whether the modification time of the list's source differs from the
\* one seen at the last load, which the code never looks at
RefreshBlockedTermsIfNeeded(pages, mtime_changed) ==
    LET r == refresh_blocked_terms_if_needed(twitch, blocked_terms, now, pages)
    IN /\ twitch' = r.tw
       /\ blocked_terms' = r.terms
       /\ probe' = [called |-> TRUE, fn |-> "refresh_blocked_terms_if_needed", t |-> now,
                    pages |-> pages, mtime_changed |-> mtime_changed,
                    before |-> [tw |-> twitch, terms |-> blocked_terms],
                    after |-> [tw |-> r.tw, terms |-> r.terms], fetches |-> r.fetches]
       /\ UNCHANGED <<now, rate_limit_max, mappings, connect_log,
                      blocked_terms_refresh_minutes,
                      queue, yt_running, threads, coordVars, spamVars, history>>

\* the liveness check is due (bot.py 219)
LiveCheckDue == now - last_twitch_live_check >= LIVE_CHECK_INTERVAL

\* the cleanup is due (bot.py 247)
CleanupDue == now - last_cleanup > CLEANUP_INTERVAL

\* Lines 216-249: loop test, liveness check with the stop()/start() calls on
\* a transition, blocked-terms refresh (interval 0: returns at once), cleanup.
\* status is what _read_stream_status() finds if the check is due; its
\* AttributeError is named by no except clause of start() and ends it through
\* the finally clause (lines 322-325).  pages are the answers to
\* fetch_blocked_terms if the refresh makes it.
CheckStep(status, pages) ==
    /\ cpc = "loop"
    /\ bot_running
    /\ IF LiveCheckDue /\ read_stream_status(status).raised
       THEN /\ cpc' = "crashed"
            /\ exception' = "AttributeError"
            /\ last_status' = status
            /\ yt_running' = reader_stop_running
            /\ UNCHANGED <<last_twitch_live_check, was_live, threads, spamVars, last_cleanup,
                           twitch, blocked_terms>>
       ELSE /\ cpc' = "gate"
            /\ UNCHANGED exception
            /\ LET r == refresh_blocked_terms_if_needed(twitch, blocked_terms, now, pages)
               IN /\ twitch' = r.tw
                  /\ blocked_terms' = r.terms
            /\ IF LiveCheckDue
               THEN LET is_live == read_stream_status(status).live
                    IN /\ last_twitch_live_check' = now
                       /\ last_status' = status
                       /\ IF was_live /\ ~is_live
                          THEN /\ was_live' = FALSE
                               /\ yt_running' = reader_stop_running
                               /\ UNCHANGED threads
                          ELSE IF ~was_live /\ is_live
                          THEN /\ Len(threads) < MaxThreads
                               /\ was_live' = TRUE
                               /\ yt_running' = reader_start_running
                               /\ threads' = reader_start_threads
                          ELSE UNCHANGED <<was_live, yt_running, threads>>
               ELSE UNCHANGED <<last_twitch_live_check, last_status, was_live,
                                yt_running, threads>>
            /\ IF CleanupDue
               THEN /\ user_timestamps' = cleanup_timestamps(user_timestamps, now)
                    /\ user_last_message' = cleanup_last_message(user_last_message, now)
                    /\ last_cleanup' = now
               ELSE UNCHANGED <<user_timestamps, user_last_message, last_cleanup>>
    /\ UNCHANGED <<now, rate_limit_max, mappings, connect_log, probe,
                   blocked_terms_refresh_minutes, queue, bot_running, history>>

\* the steps of lines 263-300, in the order of the code
PipelineStages ==
    <<"capitalize", "convert", "duplicate", "rate", "render", "truncate", "moderation", "send">>

\* variant: the rate check runs before the duplicate check
Process_rate_first(msg, t) ==
    LET author == msg.author
        message_text == convert(mappings, capitalize_first(msg.message))
        r == is_rate_limited(user_timestamps, author, t)
        d == is_duplicate(user_last_message, author, message_text, t)
        formatted_msg == truncate(message_format(author, message_text))
        b == is_message_blocked(blocked_terms, formatted_msg)
        rec == [author |-> author, raw |-> msg.message, text |-> message_text,
                time |-> t, src |-> msg.src, seq |-> msg.seq]
    IN IF r.limited
       THEN [rec |-> rec @@ [outcome |-> "rate-limited", formatted |-> None,
                             stages |-> SubSeq(PipelineStages, 1, 4)],
             lm |-> user_last_message, ts |-> r.ts]
       ELSE IF d.dup
       THEN [rec |-> rec @@ [outcome |-> "duplicate", formatted |-> None,
                             stages |-> SubSeq(PipelineStages, 1, 3)],
             lm |-> d.lm, ts |-> r.ts]
       ELSE IF b[1]
       THEN [rec |-> rec @@ [outcome |-> "blocked", formatted |-> formatted_msg,
                             stages |-> SubSeq(PipelineStages, 1, 7)],
             lm |-> d.lm, ts |-> r.ts]
       ELSE [rec |-> rec @@ [outcome |-> "sent", formatted |-> formatted_msg,
                             stages |-> PipelineStages],
             lm |-> d.lm, ts |-> r.ts]

\* Lines 263-300 for one dequeued event msg at time t: the log record (with
\* the steps the event went through and the line rendered for it, None if it
\* was dropped before) and the new spam state.
Process(msg, t) ==
    LET author == msg.author
        message_text == convert(mappings, capitalize_first(msg.message))
        d == is_duplicate(user_last_message, author, message_text, t)
        r == is_rate_limited(user_timestamps, author, t)
        formatted_msg == truncate(message_format(author, message_text))
        b == is_message_blocked(blocked_terms, formatted_msg)
        rec == [author |-> author, raw |-> msg.message, text |-> message_text,
                time |-> t, src |-> msg.src, seq |-> msg.seq]
    IN IF d.dup
       THEN [rec |-> rec @@ [outcome |-> "duplicate", formatted |-> None,
                             stages |-> SubSeq(PipelineStages, 1, 3)],
             lm |-> d.lm, ts |-> user_timestamps]
       ELSE IF r.limited
       THEN [rec |-> rec @@ [outcome |-> "rate-limited", formatted |-> None,
                             stages |-> SubSeq(PipelineStages, 1, 4)],
             lm |-> d.lm, ts |-> r.ts]
       ELSE IF b[1]
       THEN [rec |-> rec @@ [outcome |-> "blocked", formatted |-> formatted_msg,
                             stages |-> SubSeq(PipelineStages, 1, 7)],
             lm |-> d.lm, ts |-> r.ts]
       ELSE [rec |-> rec @@ [outcome |-> "sent", formatted |-> formatted_msg,
                             stages |-> PipelineStages],
             lm |-> d.lm, ts |-> r.ts]

\* variant: the paused gate is missing
GateOpen_always == TRUE

\* variant: the gate never opens
GateOpen_never == FALSE

\* the paused gate (bot.py 252): the iteration goes on to queue.get
GateOpen == was_live

\* what the chat endpoint can answer to the POST of send_message: status 200,
\* status 401, another status with a JSON body, another status whose body is
\* not JSON, or no answer (timeout, connection error)
SendResponses == {"200", "401", "500", "502_not_json", "no_answer"}

\* variant: response.json() on a body that is not JSON raises a ValueError
\* that is no RequestException
send_message_raising(resp) ==
    [posts |-> 1, refreshed |-> FALSE, delivered |-> resp = "200",
     raised |-> resp = "502_not_json"]

\* TwitchBot.send_message (twitch_bot.py 512-536): one requests.post; a status
\* other than 200 is printed; requests.post and response.json() raise only
\* RequestException, which the except clause prints.  posts counts the POSTs
\* made, refreshed says whether refresh_access_token was called, raised
\* whether an exception other than RequestException leaves the call.
send_message(resp) ==
    [posts |-> 1, refreshed |-> FALSE, delivered |-> resp = "200", raised |-> FALSE]

\* variant: the pacing sleep stands in the branch of a blocked line only
pacing_sleep_when_blocked(outcome, raised) == outcome = "blocked"

\* whether the iteration reaches time.sleep(0.5) (bot.py 303): the duplicate and
\* the rate-limited drop `continue` before it (277, 282), an exception leaving
\* send_message skips it
pacing_sleep(outcome, raised) == outcome \in {"blocked", "sent"} /\ ~raised

\* variant: queue.get leaves the event on the queue
queue_get_peek(q) == [msg |-> Head(q), rest |-> q]

\* queue.Queue.get (bot.py 259): the oldest event leaves the queue
queue_get(q) == [msg |-> Head(q), rest |-> Tail(q)]

\* Lines 251-303: paused gate, queue.get(timeout=1), the pipeline, pacing sleep;
\* resp is the answer to the POST if send_message is reached.  An exception
\* that no except clause of start() names ends start() through the finally
\* clause (lines 322-325).
GateStep(resp) ==
    /\ cpc = "gate"
    /\ IF ~GateOpen \/ queue = <<>>
       THEN /\ cpc' = "loop"
            /\ UNCHANGED <<queue, spamVars, history, yt_running, exception>>
       ELSE LET g == queue_get(queue)
                p == Process(g.msg, now)
                s == IF p.rec.outcome = "sent"
                     THEN send_message(resp) @@ [status |-> resp]
                     ELSE [posts |-> 0, refreshed |-> FALSE, delivered |-> FALSE,
                           raised |-> FALSE, status |-> "none"]
            IN /\ queue' = g.rest
               /\ user_last_message' = p.lm
               /\ user_timestamps' = p.ts
               /\ history' = Append(history, p.rec @@ s @@
                                              [paced |-> pacing_sleep(p.rec.outcome, s.raised)])
               /\ IF s.raised
                  THEN /\ cpc' = "crashed"
                       /\ exception' = "ValueError"
                       /\ yt_running' = reader_stop_running
                  ELSE /\ cpc' = "loop"
                       /\ UNCHANGED <<yt_running, exception>>
    /\ UNCHANGED <<now, configVars, threads, bot_running, was_live,
                   last_twitch_live_check, last_cleanup, last_status>>

\* KeyboardInterrupt: in the loop (318-325: running = False, finally youtube.stop())
\* or while waiting for the stream (169-171, 192-194: start() returns).
Interrupt ==
    /\ cpc \in {"waiting", "loop", "gate"}
    /\ cpc' = "stopped"
    /\ IF cpc = "waiting"
       THEN UNCHANGED <<bot_running, yt_running>>
       ELSE /\ bot_running' = FALSE
            /\ yt_running' = reader_stop_running
    /\ UNCHANGED <<now, configVars, queue, threads, was_live, last_twitch_live_check,
                   last_cleanup, spamVars, history, last_status, exception>>

\* time passes
Tick(d, limit) ==
    /\ now + d <= limit
    /\ now' = now + d
    /\ UNCHANGED <<configVars, queue, yt_running, threads, coordVars, spamVars, history>>


\* ---------------------------------------------------------------------
\* Reader thread steps: YouTubeChatReader._read_loop (youtube_reader.py 211-265)
\* ---------------------------------------------------------------------
SetThread(t, r) == threads' = [threads EXCEPT ![t] = r]

ReaderFrame == UNCHANGED <<now, configVars, yt_running, coordVars, spamVars, history>>

\* the test the loop makes between _find_live_video_id and
\* _get_initial_chat_data (lines 219-227: only `if not video_id`)
MayHandshake(found) == found

\* line 216: while self.running
LoopTop(t) ==
    /\ threads[t].pc = "loop_top"
    /\ IF yt_running
       THEN SetThread(t, [threads[t] EXCEPT !.pc = "locating"])
       ELSE SetThread(t, ExitedThread)
    /\ UNCHANGED queue
    /\ ReaderFrame

\* lines 219-227: _find_live_video_id returns (a video id, None, or raises);
\* with a video id the handshake request is issued next
LocateDone(t, res) ==
    /\ threads[t].pc = "locating"
    /\ IF MayHandshake(res = "found")
       THEN SetThread(t, [threads[t] EXCEPT !.pc = "handshaking"])
       ELSE SetThread(t, [threads[t] EXCEPT !.pc = "handler", !.pollFails = 0])
    /\ UNCHANGED queue
    /\ ReaderFrame

\* the value backoff takes when _get_initial_chat_data has returned (line 230)
BackoffAfterHandshake(backoff) == BACKOFF_FLOOR

\* lines 227-230: _get_initial_chat_data returns the continuation or raises
HandshakeDone(t, ok) ==
    /\ threads[t].pc = "handshaking"
    /\ IF ok
       THEN SetThread(t, [threads[t] EXCEPT !.pc = "poll_top", !.continuation = TRUE,
                                            !.backoff = BackoffAfterHandshake(@),
                                            !.sleeps = 0])
       ELSE SetThread(t, [threads[t] EXCEPT !.pc = "handler", !.pollFails = 0])
    /\ UNCHANGED queue
    /\ ReaderFrame

\* line 233: while self.running and continuation; on exit line 253
PollTop(t) ==
    /\ threads[t].pc = "poll_top"
    /\ IF yt_running /\ threads[t].continuation
       THEN SetThread(t, [threads[t] EXCEPT !.pc = "polling"])
       ELSE SetThread(t, [threads[t] EXCEPT !.pc = "after_try"])
    /\ UNCHANGED queue
    /\ ReaderFrame

\* the messages list _poll_chat builds (youtube_reader.py 176-207), in the
\* order of the response, each entry tagged with its origin
Stamp(messages, t, n) ==
    [i \in 1..Len(messages) |-> messages[i] @@ [src |-> t, seq |-> n + i]]

\* lines 234-236: _poll_chat returns (messages, new_continuation, timeout_ms) or raises
PollDone(t, ok, messages, new_continuation) ==
    /\ threads[t].pc = "polling"
    /\ IF ok
       THEN /\ EventsInSystem + Len(messages) <= MaxEvents
            /\ SetThread(t, [threads[t] EXCEPT !.pc = "putting",
                                               !.batch = Stamp(messages, t, threads[t].parsed),
                                               !.parsed = @ + Len(messages),
                                               !.new_continuation = new_continuation,
                                               !.pollFails = 0])
       ELSE SetThread(t, [threads[t] EXCEPT !.pc = "handler",
                                            !.pollFails = Min(@ + 1, MaxPollFails)])
    /\ UNCHANGED queue
    /\ ReaderFrame

\* queue.Queue.put: blocks only when maxsize > 0 and the queue is full
PutAllowed == maxsize > 0 => Len(queue) < maxsize

\* variant: the batch is walked from its end
batch_pop_last(batch) ==
    [msg |-> batch[Len(batch)], rest |-> SubSeq(batch, 1, Len(batch) - 1)]

\* line 238: for msg in messages (the next message and what is left)
batch_pop(batch) == [msg |-> Head(batch), rest |-> Tail(batch)]

\* variant: the poll loop goes on without a new continuation
SessionEnds_never(new_continuation) == FALSE

\* lines 241-243: if not new_continuation: break
SessionEnds(new_continuation) == ~new_continuation

\* lines 238-245: one queue.put per message, then the continuation test
PutStep(t) ==
    /\ threads[t].pc = "putting"
    /\ IF threads[t].batch # <<>>
       THEN /\ PutAllowed
            /\ Len(queue) < MaxQueue
            /\ queue' = Append(queue, batch_pop(threads[t].batch).msg)
            /\ SetThread(t, [threads[t] EXCEPT !.batch = batch_pop(@).rest])
       ELSE /\ UNCHANGED queue
            /\ IF SessionEnds(threads[t].new_continuation)
               THEN SetThread(t, [threads[t] EXCEPT !.pc = "after_try"])
               ELSE SetThread(t, [threads[t] EXCEPT !.pc = "poll_wait",
                                                    !.continuation = TRUE,
                                                    !.new_continuation = FALSE])
    /\ ReaderFrame

\* line 250: while self.running and time.time() < end_time (expired: the deadline passed)
PollWait(t, expired) ==
    /\ threads[t].pc = "poll_wait"
    /\ IF yt_running /\ ~expired
       THEN SetThread(t, [threads[t] EXCEPT !.pc = "poll_sleeping"])
       ELSE SetThread(t, [threads[t] EXCEPT !.pc = "poll_top"])
    /\ UNCHANGED queue
    /\ ReaderFrame

\* line 251: time.sleep(0.5) returns
PollSleepWake(t) ==
    /\ threads[t].pc = "poll_sleeping"
    /\ SetThread(t, [threads[t] EXCEPT !.pc = "poll_wait"])
    /\ UNCHANGED queue
    /\ ReaderFrame

\* variant: any exception ends the loop
HandlerBreaks_always(running) == TRUE

\* lines 257-258: if not self.running: break
HandlerBreaks(running) == ~running

\* lines 256-259: except Exception: if not self.running: break
Handler(t) ==
    /\ threads[t].pc = "handler"
    /\ IF HandlerBreaks(yt_running)
       THEN SetThread(t, ExitedThread)
       ELSE SetThread(t, [threads[t] EXCEPT !.pc = "after_try"])
    /\ UNCHANGED queue
    /\ ReaderFrame

\* lines 262-264: if self.running: time.sleep(backoff)
AfterTry(t) ==
    /\ threads[t].pc = "after_try"
    /\ IF yt_running
       THEN SetThread(t, [threads[t] EXCEPT !.pc = "backoff_sleep",
                                            !.sleeps = Min(@ + 1, MaxSleeps)])
       ELSE SetThread(t, [threads[t] EXCEPT !.pc = "loop_top"])
    /\ UNCHANGED queue
    /\ ReaderFrame

\* variant: the delay doubles without a cap
NextBackoff_uncapped(backoff) == backoff * 2

\* line 265: backoff = min(backoff * 2, max_backoff)
NextBackoff(backoff) == Min(backoff * 2, max_backoff)

\* lines 264-265: time.sleep(backoff) returns
BackoffWake(t) ==
    /\ threads[t].pc = "backoff_sleep"
    /\ SetThread(t, [threads[t] EXCEPT !.pc = "loop_top", !.backoff = NextBackoff(@)])
    /\ UNCHANGED queue
    /\ ReaderFrame


\* ---------------------------------------------------------------------
\* Specifications
\* ---------------------------------------------------------------------
WaveMap == [x \in {WaveCode} |-> WaveSymbol]

\* both tokens and both refresh tokens configured
FullConfig ==
    TwitchBot_init("bot_0", "broadcaster_0", "secret", "bot_refresh_0", "broadcaster_refresh_0")

\* every combination of the optional settings TWITCH_BROADCASTER_OAUTH_TOKEN,
\* TWITCH_CLIENT_SECRET, TWITCH_BOT_REFRESH_TOKEN, TWITCH_BROADCASTER_REFRESH_TOKEN
TwitchConfigs ==
    {TwitchBot_init("bot_0", b, s, r, q) :
        b \in {None, "broadcaster_0"}, s \in {None, "secret"},
        r \in {None, "bot_refresh_0"}, q \in {None, "broadcaster_refresh_0"}}

\* state after YouTubeToTwitchBot.__init__ (bot.py 28-67, youtube_reader.py 35-39,
\* twitch_bot.py 31-47)
InitFields(limits, maps, configs) ==
    /\ now = 0
    /\ rate_limit_max \in limits
    /\ mappings \in maps
    /\ blocked_terms = <<>>
    /\ queue = <<>>
    /\ yt_running = FALSE
    /\ threads = <<>>
    /\ bot_running = FALSE
    /\ cpc = "init"
    /\ was_live = FALSE
    /\ last_twitch_live_check = 0
    /\ last_cleanup = 0
    /\ user_timestamps = EmptyDict
    /\ user_last_message = EmptyDict
    /\ history = <<>>
    /\ twitch \in configs
    /\ last_status = "none"
    /\ exception = "none"
    /\ connect_log = NoConnect
    /\ blocked_terms_refresh_minutes = DEFAULT_REFRESH_MINUTES

InitWith(limits, maps, configs) ==
    /\ InitFields(limits, maps, configs)
    /\ probe = NoProbe

Threads == 1..Len(threads)

\* --- the relay with both flows and liveness transitions -----------------
ReaderBatches == {<<>>, <<Event(Bob, Hi)>>, <<Event(Bob, Hi), Event(Bob, Yo)>>}

Init == InitWith({RATE_LIMIT_MAX_MESSAGES}, {EmptyDict}, {FullConfig})

Next ==
    \/ \E status \in {"live", "offline"} : Start(status, OnePage(<<>>), HealthyServer)
    \/ \E status \in {"live", "offline"} : CheckStep(status, OnePage(<<>>))
    \/ GateStep("200")
    \/ Interrupt
    \/ Tick(LIVE_CHECK_INTERVAL, ReaderMaxTime)
    \/ \E t \in Threads : LoopTop(t)
    \/ \E t \in Threads : LocateDone(t, "found")
    \/ \E t \in Threads : HandshakeDone(t, TRUE)
    \/ \E t \in Threads : PollTop(t)
    \/ \E t \in Threads, m \in ReaderBatches : PollDone(t, TRUE, m, TRUE)
    \/ \E t \in Threads : PutStep(t)
    \/ \E t \in Threads, expired \in BOOLEAN : PollWait(t, expired)
    \/ \E t \in Threads : PollSleepWake(t)

Spec == Init /\ [][Next]_vars

\* --- the consumer pipeline under a live stream and a healthy source -----
GuardSteps == {15, 30}

GuardBatches == {<<Event(Alice, Hi)>>, <<Event(Alice, HelloWave)>>}

InitGuard == InitWith({RATE_LIMIT_MAX_MESSAGES}, {WaveMap}, {FullConfig})

NextGuard ==
    \/ Start("live", OnePage(<<>>), HealthyServer)
    \/ CheckStep("live", OnePage(<<>>))
    \/ GateStep("200")
    \/ \E d \in GuardSteps : Tick(d, MaxTime)
    \/ \E t \in Threads : LoopTop(t)
    \/ \E t \in Threads : LocateDone(t, "found")
    \/ \E t \in Threads : HandshakeDone(t, TRUE)
    \/ \E t \in Threads : PollTop(t)
    \/ \E t \in Threads, m \in GuardBatches : PollDone(t, TRUE, m, TRUE)
    \/ \E t \in Threads : PutStep(t)
    \/ \E t \in Threads : PollWait(t, TRUE)

SpecGuard == InitGuard /\ [][NextGuard]_vars

\* --- the scenario of three identical messages under a limit of 2 per 30 s --
ScenarioSteps == {5}

ScenarioBatches == {<<Event(Alice, HelloWave)>>}

InitScenario == InitWith({RATE_LIMIT_MAX_MESSAGES - 1}, {WaveMap}, {FullConfig})

NextScenario ==
    \/ Start("live", OnePage(<<>>), HealthyServer)
    \/ CheckStep("live", OnePage(<<>>))
    \/ GateStep("200")
    \/ \E d \in ScenarioSteps : Tick(d, ScenarioMaxTime)
    \/ \E t \in Threads : LoopTop(t)
    \/ \E t \in Threads : LocateDone(t, "found")
    \/ \E t \in Threads : HandshakeDone(t, TRUE)
    \/ \E t \in Threads : PollTop(t)
    \/ \E t \in Threads, m \in ScenarioBatches : PollDone(t, TRUE, m, TRUE)
    \/ \E t \in Threads : PutStep(t)
    \/ \E t \in Threads : PollWait(t, TRUE)

SpecScenario == InitScenario /\ [][NextScenario]_vars

\* --- three different texts of one author under a limit of 2 per 30 s ------
BaselineBatches == {<<Event(Alice, Hi)>>, <<Event(Alice, Yo)>>, <<Event(Alice, HelloWave)>>}

InitBaseline == InitWith({RATE_LIMIT_MAX_MESSAGES - 1}, {EmptyDict}, {FullConfig})

NextBaseline ==
    \/ Start("live", OnePage(<<>>), HealthyServer)
    \/ CheckStep("live", OnePage(<<>>))
    \/ GateStep("200")
    \/ \E t \in Threads : LoopTop(t)
    \/ \E t \in Threads : LocateDone(t, "found")
    \/ \E t \in Threads : HandshakeDone(t, TRUE)
    \/ \E t \in Threads : PollTop(t)
    \/ \E t \in Threads, m \in BaselineBatches : PollDone(t, TRUE, m, TRUE)
    \/ \E t \in Threads : PutStep(t)
    \/ \E t \in Threads : PollWait(t, TRUE)

SpecBaseline == InitBaseline /\ [][NextBaseline]_vars

\* --- one reader thread against a failing source -------------------------
LocateResults == {"found", "none", "error"}

BackoffBatches == {<<>>, <<Event(Bob, Hi)>>}

NextBackoffSpec ==
    \/ Start("live", OnePage(<<>>), HealthyServer)
    \/ Interrupt
    \/ \E t \in Threads : LoopTop(t)
    \/ \E t \in Threads, res \in LocateResults : LocateDone(t, res)
    \/ \E t \in Threads, ok \in BOOLEAN : HandshakeDone(t, ok)
    \/ \E t \in Threads : PollTop(t)
    \/ \E t \in Threads, ok \in BOOLEAN, m \in BackoffBatches, c \in BOOLEAN :
            PollDone(t, ok, m, c)
    \/ \E t \in Threads : PutStep(t)
    \/ \E t \in Threads, expired \in BOOLEAN : PollWait(t, expired)
    \/ \E t \in Threads : PollSleepWake(t)
    \/ \E t \in Threads : Handler(t)
    \/ \E t \in Threads : AfterTry(t)
    \/ \E t \in Threads : BackoffWake(t)

SpecBackoff == Init /\ [][NextBackoffSpec]_vars

\* --- one reader thread that is stopped and scheduled fairly ---------------
\* a step of reader thread t: every network call and every sleep returns, with
\* any result; a response brings no more events than the queue takes without
\* waiting (queue.Queue() is unbounded, youtube_reader.py 37)
ReaderStep(t) ==
    /\ t \in Threads
    /\ \/ LoopTop(t)
       \/ \E res \in LocateResults : LocateDone(t, res)
       \/ \E ok \in BOOLEAN : HandshakeDone(t, ok)
       \/ PollTop(t)
       \/ \E ok \in BOOLEAN, m \in BackoffBatches, c \in BOOLEAN :
              /\ Len(queue) + Len(m) <= MaxQueue
              /\ PollDone(t, ok, m, c)
       \/ PutStep(t)
       \/ \E expired \in BOOLEAN : PollWait(t, expired)
       \/ PollSleepWake(t)
       \/ Handler(t)
       \/ AfterTry(t)
       \/ BackoffWake(t)

NextStop ==
    \/ Start("live", OnePage(<<>>), HealthyServer)
    \/ Interrupt
    \/ \E t \in Threads : ReaderStep(t)

\* the thread of _read_loop is scheduled again and again (threading.Thread,
\* youtube_reader.py 43-45)
SpecStop == Init /\ [][NextStop]_vars /\ \A t \in 1..MaxThreads : WF_vars(ReaderStep(t))

\* --- delivery: a live stream, a healthy source, every answer of the chat endpoint --
DeliveryTerms == {<<>>, <<Yo>>}

DeliveryBatches == {<<Event(Bob, Hi)>>, <<Event(Bob, Hi), Event(Bob, Yo)>>}

NextDelivery ==
    \/ \E terms \in DeliveryTerms : Start("live", OnePage(terms), HealthyServer)
    \/ CheckStep("live", OnePage(<<>>))
    \/ \E resp \in SendResponses : GateStep(resp)
    \/ \E t \in Threads : LoopTop(t)
    \/ \E t \in Threads : LocateDone(t, "found")
    \/ \E t \in Threads : HandshakeDone(t, TRUE)
    \/ \E t \in Threads : PollTop(t)
    \/ \E t \in Threads, m \in DeliveryBatches : PollDone(t, TRUE, m, TRUE)
    \/ \E t \in Threads : PutStep(t)
    \/ \E t \in Threads : PollWait(t, TRUE)

SpecDelivery == Init /\ [][NextDelivery]_vars

\* --- the pipeline with a mapping, a blocked term and repeated events ------
PipelineBatches ==
    {<<Event(Bob, WaveCode)>>, <<Event(Bob, Hi)>>, <<Event(Bob, Yo)>>, <<Event(Bob, HelloWave)>>}

InitPipeline == InitWith({RATE_LIMIT_MAX_MESSAGES}, {WaveMap}, {FullConfig})

NextPipeline ==
    \/ Start("live", OnePage(<<Yo>>), HealthyServer)
    \/ CheckStep("live", OnePage(<<>>))
    \/ GateStep("200")
    \/ \E t \in Threads : LoopTop(t)
    \/ \E t \in Threads : LocateDone(t, "found")
    \/ \E t \in Threads : HandshakeDone(t, TRUE)
    \/ \E t \in Threads : PollTop(t)
    \/ \E t \in Threads, m \in PipelineBatches : PollDone(t, TRUE, m, TRUE)
    \/ \E t \in Threads : PutStep(t)
    \/ \E t \in Threads : PollWait(t, TRUE)

SpecPipeline == InitPipeline /\ [][NextPipeline]_vars

\* --- startup under every configuration of the tokens and every server ----
InitConnect == InitWith({RATE_LIMIT_MAX_MESSAGES}, {EmptyDict}, TwitchConfigs)

NextConnect ==
    \/ \E status \in {"live", "offline"}, srv \in Servers : Start(status, OnePage(<<>>), srv)
    \/ CheckStep("live", OnePage(<<>>))
    \/ GateStep("200")
    \/ Interrupt

SpecConnect == InitConnect /\ [][NextConnect]_vars

\* --- the relay under every reading of the status file --------------------
GatingBatches == {<<>>}

NextGating ==
    \/ \E status \in StatusReadings : Start(status, OnePage(<<>>), HealthyServer)
    \/ \E status \in StatusReadings : CheckStep(status, OnePage(<<>>))
    \/ GateStep("200")
    \/ Interrupt
    \/ Tick(LIVE_CHECK_INTERVAL, ReaderMaxTime)
    \/ \E t \in Threads : LoopTop(t)
    \/ \E t \in Threads : LocateDone(t, "found")
    \/ \E t \in Threads : HandshakeDone(t, TRUE)
    \/ \E t \in Threads : PollTop(t)
    \/ \E t \in Threads, m \in GatingBatches : PollDone(t, TRUE, m, TRUE)
    \/ \E t \in Threads : PutStep(t)
    \/ \E t \in Threads : PollWait(t, TRUE)

SpecGating == Init /\ [][NextGating]_vars

\* --- calls of is_channel_live against every pair of answers --------------
NextLive ==
    \E streams \in StreamsAnswers, users \in UsersAnswers, debug \in BOOLEAN :
        IsChannelLive(streams, users, debug)

SpecLive == Init /\ [][NextLive]_vars

\* --- the moderation list fetched and consulted ---------------------------
ModerationEntries == {BadWord, BadWordCapital, FooBarEntry, Hi}

ModerationLists ==
    {<<>>} \cup {<<a>> : a \in ModerationEntries}
           \cup {<<a, b>> : a \in ModerationEntries, b \in ModerationEntries}

\* one page, or two pages with the second answered well or not
ModerationPages ==
    {OnePage(l) : l \in ModerationLists}
        \cup {OnePage(<<a>>) \o <<[status |-> st, texts |-> l]>> :
                  a \in {BadWord, Hi}, st \in {"200", "401", "500", "no_answer"},
                  l \in {<<>>, <<FooBarEntry>>}}
        \cup {<<[status |-> st, texts |-> <<>>]>> : st \in {"401", "no_answer"}}

ModerationMessages == {FooBarMessage, QuotedEntryMessage, ShoutedMessage, Hi, Yo}

NextModeration ==
    \/ \E pages \in ModerationPages : FetchBlockedTerms(pages)
    \/ \E message \in ModerationMessages : IsMessageBlocked(message)

SpecModeration == Init /\ [][NextModeration]_vars

\* --- calls of refresh_blocked_terms_if_needed under every interval -------
RefreshIntervals == {0 - 30, 0, 30, 60}

RefreshPages == {OnePage(<<>>), OnePage(<<BadWord>>), <<[status |-> "500", texts |-> <<>>]>>}

NextRefresh ==
    \/ \E seconds \in RefreshIntervals : SetRefreshInterval(seconds)
    \/ \E pages \in RefreshPages, mtime_changed \in BOOLEAN :
           RefreshBlockedTermsIfNeeded(pages, mtime_changed)
    \/ \E d \in GuardSteps : Tick(d, MaxTime)

SpecRefresh == Init /\ [][NextRefresh]_vars

\* --- collapse_emojis applied once and again -------------------------------
CollapseChars == {":", "a", "b", " "}

RECURSIVE TextsUpTo(_)
TextsUpTo(n) ==
    IF n = 0 THEN {<<>>}
    ELSE LET shorter == TextsUpTo(n - 1)
         IN shorter \cup {Append(t, c) : t \in shorter, c \in CollapseChars}

InitCollapse ==
    /\ InitFields({RATE_LIMIT_MAX_MESSAGES}, {EmptyDict}, {FullConfig})
    /\ \E message \in TextsUpTo(MaxCollapseLen), max_unique \in {1, 5} :
           probe = [called |-> FALSE, fn |-> "collapse_emojis", passes |-> 0,
                    message |-> message, max_unique |-> max_unique, result |-> <<>>]

NextCollapse == CollapseEmojis

SpecCollapse == InitCollapse /\ [][NextCollapse]_vars

\* --- the spam guard called in any order, with cleanups in between ---------
\* Alice sends two texts and is rate-checked, Bob sends one text
SpamMessages == {Event(Alice, Hi), Event(Alice, Yo), Event(Bob, Hi)}

SpamRated == {Alice}

InitSpam ==
    /\ InitFields({RATE_LIMIT_MAX_MESSAGES}, {EmptyDict}, {FullConfig})
    /\ probe = NoSpamCall

NextSpam ==
    \/ \E m \in SpamMessages : IsDuplicate(m.author, m.message)
    \/ \E author \in SpamRated : IsRateLimited(author)
    \/ CleanupSpamState
    \/ \E d \in GuardSteps : Tick(d, SpamMaxTime)

SpecSpam == InitSpam /\ [][NextSpam]_vars

\* --- the consumer scheduled fairly under a stream that stays live ---------
ProgressBatches == {<<Event(Bob, Hi), Event(Bob, Yo)>>}

\* a pause after which the live check and the cleanup are both due
ProgressSteps == {CLEANUP_INTERVAL + LIVE_CHECK_INTERVAL}

\* an iteration of the consumer loop: housekeeping (lines 216-249), then the
\* gate, queue.get and the pipeline (251-303); every call in it returns
ConsumerStep ==
    \/ CheckStep("live", OnePage(<<>>))
    \/ GateStep("200")

NextProgress ==
    \/ Start("live", OnePage(<<>>), HealthyServer)
    \/ ConsumerStep
    \/ \E d \in ProgressSteps : Tick(d, MaxTime)
    \/ \E t \in Threads : LoopTop(t)
    \/ \E t \in Threads : LocateDone(t, "found")
    \/ \E t \in Threads : HandshakeDone(t, TRUE)
    \/ \E t \in Threads : PollTop(t)
    \/ \E t \in Threads, m \in ProgressBatches : PollDone(t, TRUE, m, TRUE)
    \/ \E t \in Threads : PutStep(t)
    \/ \E t \in Threads : PollWait(t, TRUE)

\* the main thread keeps running the loop of start()
SpecProgress == Init /\ [][NextProgress]_vars /\ WF_vars(ConsumerStep)

\* --- connect, disconnect and reconnect against the socket threads ---------
InitReconnect ==
    /\ InitFields({RATE_LIMIT_MAX_MESSAGES}, {EmptyDict}, {FullConfig})
    /\ probe = NoConnection

NextReconnect ==
    \/ ConnectBegin
    \/ \E expired \in BOOLEAN : ConnectWaitEnds(expired)
    \/ ConnectCheck
    \/ Disconnect
    \/ \E s \in 1..MaxSockets : OnWelcome(s)
    \/ \E s \in 1..MaxSockets : OnClose(s)

SpecReconnect == InitReconnect /\ [][NextReconnect]_vars

\* --- lines rendered around the length limit ------------------------------
\* a chat text of n characters, none of them a dot
LongText(n) == [i \in 1..n |-> IF i % 2 = 1 THEN "a" ELSE "b"]

TruncateLengths == (TWITCH_MAX_LEN - TruncateMargin)..(TWITCH_MAX_LEN + TruncateMargin)

NextTruncate ==
    \E author \in {Alice, Bob}, n \in TruncateLengths : RenderAndTruncate(author, LongText(n))

SpecTruncate == Init /\ [][NextTruncate]_vars

\* --- a long run of the relay while the channel's list has changed --------
LongRunSteps == {600}

NextLongRun ==
    \/ Start("live", OnePage(<<>>), HealthyServer)
    \/ CheckStep("live", OnePage(<<BadWord>>))
    \/ GateStep("200")
    \/ Interrupt
    \/ \E d \in LongRunSteps : Tick(d, LongRunMaxTime)
    \/ \E t \in Threads : LoopTop(t)
    \/ \E t \in Threads : LocateDone(t, "found")
    \/ \E t \in Threads : HandshakeDone(t, TRUE)
    \/ \E t \in Threads : PollTop(t)
    \/ \E t \in Threads, m \in BackoffBatches : PollDone(t, TRUE, m, TRUE)
    \/ \E t \in Threads : PutStep(t)
    \/ \E t \in Threads : PollWait(t, TRUE)

SpecLongRun == Init /\ [][NextLongRun]_vars


\* ---------------------------------------------------------------------
\* Properties of the spam guard (SpecGuard, SpecScenario)
\* ---------------------------------------------------------------------
H == DOMAIN history

\* the rate check was made for record i and returned False
Allowed(i) == history[i].outcome \in {"sent", "blocked"}

\* the duplicate check returned False for record i
PassedDuplicate(i) == history[i].outcome # "duplicate"

SameAuthor(i, j) == history[i].author = history[j].author

SameText(i, j) == history[i].text = history[j].text

\* the allowed messages of i's author in the closed interval [t_i, t_i + W]
AllowedInClosedWindow(i) ==
    {j \in H : /\ Allowed(j) /\ SameAuthor(i, j)
               /\ history[j].time >= history[i].time
               /\ history[j].time <= history[i].time + RATE_LIMIT_WINDOW}

\* the allowed messages of i's author in the half-open interval [t_i, t_i + W)
AllowedInHalfOpenWindow(i) ==
    {j \in H : /\ Allowed(j) /\ SameAuthor(i, j)
               /\ history[j].time >= history[i].time
               /\ history[j].time < history[i].time + RATE_LIMIT_WINDOW}

\* C1 as stated: in any interval of length RATE_LIMIT_WINDOW, end points
\* included, at most rate_limit_max messages of one author pass the rate check.
C1_AtMostKPerClosedWindow ==
    \A i \in H : Allowed(i) => Cardinality(AllowedInClosedWindow(i)) <= rate_limit_max

\* C1 amended: in any half-open interval [s, s + RATE_LIMIT_WINDOW) at most
\* rate_limit_max messages of one author pass the rate check, whatever the
\* texts and wherever _cleanup_spam_state runs; a message exactly
\* RATE_LIMIT_WINDOW after the first of the K is let through.
C1_AtMostKPerHalfOpenWindow ==
    \A i \in H : Allowed(i) => Cardinality(AllowedInHalfOpenWindow(i)) <= rate_limit_max

\* a message was rate-limited after _cleanup_spam_state had run
C1_Witness ==
    /\ last_cleanup > 0
    /\ \E i \in H : history[i].outcome = "rate-limited" /\ history[i].time >= last_cleanup

\* the latest record before j of the same author that passed the duplicate check
\* (the one _user_last_message holds when j arrives, unless cleaned up), 0 if none
LastStored(j) ==
    LET c == {i \in H : i < j /\ SameAuthor(i, j) /\ PassedDuplicate(i)}
    IN IF c = {} THEN 0 ELSE CHOOSE i \in c : \A k \in c : k <= i

\* the record of the same author immediately before j, 0 if none
Previous(j) ==
    LET c == {i \in H : i < j /\ SameAuthor(i, j)}
    IN IF c = {} THEN 0 ELSE CHOOSE i \in c : \A k \in c : k <= i

\* C2 as stated: of any two messages of one author with identical text less
\* than DUPLICATE_WINDOW apart, the later one is dropped as a duplicate.
C2_LaterOfAnyCloseEqualPairDropped ==
    \A i, j \in H :
        (i < j /\ SameAuthor(i, j) /\ SameText(i, j)
         /\ history[j].time - history[i].time < DUPLICATE_WINDOW)
        => history[j].outcome = "duplicate"

\* C2 amended: a message whose text equals that of the author's most recent
\* message that passed the duplicate check, arriving less than
\* DUPLICATE_WINDOW after it, is dropped as a duplicate and not sent.
C2_DuplicateOfLastStoredDropped ==
    \A j \in H :
        LET i == LastStored(j)
        IN (i # 0 /\ SameText(i, j)
            /\ history[j].time - history[i].time < DUPLICATE_WINDOW)
           => history[j].outcome = "duplicate"

\* a message was dropped as a duplicate of one sent less than a window earlier,
\* with a cleanup between the two
C2_Witness ==
    \E j \in H :
        /\ history[j].outcome = "duplicate"
        /\ LastStored(j) # 0
        /\ history[LastStored(j)].outcome = "sent"
        /\ history[LastStored(j)].time < last_cleanup
        /\ history[j].time >= last_cleanup

\* C3 as stated: of any two messages of one author with identical text at
\* least DUPLICATE_WINDOW apart, neither is dropped as a duplicate.
C3_NeitherOfAnyDistantEqualPairDropped ==
    \A i, j \in H :
        (i < j /\ SameAuthor(i, j) /\ SameText(i, j)
         /\ history[j].time - history[i].time >= DUPLICATE_WINDOW)
        => (history[i].outcome # "duplicate" /\ history[j].outcome # "duplicate")

\* C3 amended: a message with the text of the author's immediately preceding
\* message, arriving DUPLICATE_WINDOW or more after it, is not dropped as a
\* duplicate.
C3_DistantRepeatNotDuplicate ==
    \A j \in H :
        LET i == Previous(j)
        IN (i # 0 /\ SameText(i, j)
            /\ history[j].time - history[i].time >= DUPLICATE_WINDOW)
           => history[j].outcome # "duplicate"

\* a repeat exactly DUPLICATE_WINDOW after the previous message was sent
C3_Witness ==
    \E j \in H :
        /\ Previous(j) # 0
        /\ SameText(Previous(j), j)
        /\ history[j].time - history[Previous(j)].time = DUPLICATE_WINDOW
        /\ history[Previous(j)].outcome = "sent"
        /\ history[j].outcome = "sent"

\* the scenario texts after the pipeline's transforms
HelloWaveSent == <<"H", "E", "L", "L", "O", " ", "o", "/">>

HelloWaveLowered == <<"h", "e", "l", "l", "o", " ", "o", "/">>

\* Alice's three messages have been processed within 10 s
ScenarioDone ==
    /\ Len(history) = 3
    /\ \A i \in H : history[i].author = Alice /\ history[i].raw = HelloWave
    /\ history[3].time - history[1].time <= 10

\* C4 as stated: messages 1 and 2 are delivered lower-cased with :wave:
\* substituted, message 3 is dropped as rate-limited.
C4_TwoSentThirdRateLimited ==
    (ScenarioDone /\ rate_limit_max = 2)
    => /\ history[1].outcome = "sent" /\ history[1].text = HelloWaveLowered
       /\ history[2].outcome = "sent" /\ history[2].text = HelloWaveLowered
       /\ history[3].outcome = "rate-limited"

\* C4 amended: message 1 is delivered with :wave: substituted and its case
\* unchanged; messages 2 and 3 are dropped as duplicates before the rate check.
C4_FirstSentRestDuplicates ==
    (ScenarioDone /\ rate_limit_max = 2)
    => /\ history[1].outcome = "sent" /\ history[1].text = HelloWaveSent
       /\ history[1].formatted = message_format(Alice, HelloWaveSent)
       /\ history[2].outcome = "duplicate"
       /\ history[3].outcome = "duplicate"
       /\ Len(user_timestamps[Alice]) = 1

C4_Witness == ScenarioDone /\ rate_limit_max = 2


\* ---------------------------------------------------------------------
\* Properties of the reader loop and of the producer/consumer pair
\* ---------------------------------------------------------------------
RECURSIVE Pow2(_)
Pow2(n) == IF n = 0 THEN 1 ELSE 2 * Pow2(n - 1)

\* C5 as stated: the backoff slept after the n-th consecutive failed poll (each
\* preceded by a successful locate and handshake) is floor * 2^(n-1), capped.
C5_PollFailureBackoffDoubles ==
    \A t \in Threads :
        (threads[t].pc = "backoff_sleep" /\ threads[t].pollFails >= 1)
        => threads[t].backoff = Min(BACKOFF_FLOOR * Pow2(threads[t].pollFails - 1), max_backoff)

\* the threads inside _read_loop
AliveThreads == {t \in Threads : Alive(t)}

\* C6 as stated: at most one reader loop is alive at any moment.
C6_AtMostOneReaderAlive == Cardinality(AliveThreads) <= 1

\* C7 as stated: with the running flag cleared, no reader thread enters a
\* blocking call (locate, handshake, poll, inter-poll sleep, backoff sleep).
C7_NoBlockingCallAfterStop ==
    [][~yt_running =>
          \A t \in Threads :
              threads'[t].pc \in BlockingStates => threads'[t].pc = threads[t].pc]_vars

IsPrefix(p, q) == Len(p) <= Len(q) /\ SubSeq(q, 1, Len(p)) = p

\* C8: a step taken while was_live is False dequeues nothing and sends
\* nothing; the events queued stay at the head of the queue in their order.
C8_PausedNoDequeue ==
    [][~was_live => (history' = history /\ IsPrefix(queue, queue'))]_vars

\* the consumer went through its gate while paused with events queued
C8_Witness ==
    /\ cpc = "loop"
    /\ bot_running
    /\ ~was_live
    /\ queue # <<>>
    /\ last_twitch_live_check > 0

\* C9: at every iteration boundary of the consumer loop the relay is paused
\* exactly when the reader's running flag is False.
C9_PausedIffReaderStopped ==
    cpc \in {"loop", "gate"} => (was_live <=> yt_running)

\* the relay was paused and resumed, restarting the reader
C9_Witness ==
    /\ cpc = "loop"
    /\ was_live
    /\ yt_running
    /\ Len(threads) = 2

\* C10 as stated: the number of queued events never exceeds a fixed capacity.
\* queue.Queue() has maxsize 0, so the only limit on the queue is the bound
\* explored; the capacity tried is every value below it.
C10_QueueBounded ==
    \E capacity \in 0..(MaxQueue - 1) : Len(queue) <= capacity


\* ---------------------------------------------------------------------
\* Properties of the path of one event (Spec, SpecDelivery)
\* ---------------------------------------------------------------------
\* events of one reader thread appear in es in the order they were parsed
InParseOrder(es) ==
    \A i, j \in DOMAIN es :
        (i < j /\ es[i].src = es[j].src) => es[i].seq < es[j].seq

\* no event appears twice in es
NoRepeat(es) ==
    \A i, j \in DOMAIN es :
        (es[i].src = es[j].src /\ es[i].seq = es[j].seq) => i = j

\* the events processed, then those queued, then those thread t still holds
PathOf(t) == history \o queue \o threads[t].batch

\* C11: two events parsed by one reader thread (a polling session belongs to
\* one thread) are enqueued, dequeued and sent in the order they were parsed:
\* along the log, the queue and the batch being put, their numbers increase.
C11_SessionOrderKept == \A t \in Threads : InParseOrder(PathOf(t))

\* two events of one thread were sent with an event of the other thread
\* processed between them
C11_Witness ==
    \E i, k, j \in H :
        /\ i < k /\ k < j
        /\ history[i].src = history[j].src
        /\ history[k].src # history[i].src
        /\ history[i].outcome = "sent"
        /\ history[j].outcome = "sent"

\* C12: an event is on the path from the reader to the log at most once (put
\* once, dequeued once, processed once), and the consumer makes at most two
\* POSTs for it, of which at most one is answered with 200.
C12_AtMostOnce ==
    /\ \A t \in Threads : NoRepeat(PathOf(t))
    /\ \A i \in H : history[i].posts <= 2 /\ (history[i].delivered => history[i].status = "200")

\* an event whose POST got no answer was not posted again, and the next
\* event was delivered
C12_Witness ==
    \E i \in H :
        /\ i + 1 \in H
        /\ history[i].status = "no_answer"
        /\ history[i].posts = 1
        /\ history[i + 1].delivered

\* C13 as stated: a POST answered with 401 is followed by one credential
\* refresh and, if the refresh succeeded, by one more POST of the same event.
C13_UnauthorizedRefreshesAndRetries ==
    \A i \in H :
        history[i].status = "401" => (history[i].refreshed /\ history[i].posts = 2)

\* C14: whatever the answer to the POST (a status other than 200, with or
\* without a JSON body, or no answer), the step that handled it leaves the
\* consumer at the top of its loop with the relay running and the reader
\* untouched.
C14_FailedSendKeepsLooping ==
    [][(Len(history') > Len(history)
            /\ history'[Len(history')].status \notin {"200", "none"})
       => (cpc' = "loop" /\ bot_running' /\ yt_running' /\ threads' = threads)]_vars

\* every kind of failed POST has happened, and an event dequeued after a
\* failed POST was delivered
C14_Witness ==
    /\ \E i \in H : history[i].status = "502_not_json" /\ i + 1 \in H /\ history[i + 1].delivered
    /\ \E i \in H : history[i].status \in {"401", "500", "no_answer"}
    /\ cpc = "loop"

\* C15: an error of the locate, handshake or poll call made while the running
\* flag is set does not end the reader loop and puts nothing on the queue: the
\* thread goes through its handler to the backoff sleep and from there back to
\* the locate call; the loop ends only with the flag cleared, and only the
\* next message of a parsed batch is ever put on the queue.
C15_SourceErrorsContained ==
    [][\A t \in Threads :
          LET a == threads[t]
              b == threads'[t]
          IN /\ (a.pc # "exit" /\ b.pc = "exit") => ~yt_running
             /\ (a.pc \in {"locating", "handshaking", "polling"} /\ b.pc = "handler")
                    => queue' = queue
             /\ (a.pc = "handler" /\ yt_running /\ b.pc # a.pc) => b.pc = "after_try"
             /\ (a.pc = "after_try" /\ yt_running /\ b.pc # a.pc) => b.pc = "backoff_sleep"
             /\ (a.pc = "backoff_sleep" /\ b.pc # a.pc) => b.pc = "loop_top"
             /\ (a.pc = "loop_top" /\ yt_running /\ b.pc # a.pc) => b.pc = "locating"
             /\ queue' # queue
                    => \E u \in Threads :
                          /\ threads[u].batch # <<>>
                          /\ queue' = Append(queue, Head(threads[u].batch))]_vars

\* after a failed poll and two backoff sleeps the thread is at the locate
\* call again, the flag still set
C15_Witness ==
    \E t \in Threads :
        /\ yt_running
        /\ threads[t].pc = "locating"
        /\ threads[t].backoff = 4 * BACKOFF_FLOOR
        /\ threads[t].parsed > 0


\* ---------------------------------------------------------------------
\* Properties of connect() and of the liveness checks
\* (SpecConnect, SpecLive, SpecGating)
\* ---------------------------------------------------------------------
TokenErrors == {BotTokenError, BroadcasterTokenError}

\* in the last connect() the refresh of the bot token could not succeed
BotTokenUnrefreshable ==
    \/ connect_log.before.bot_refresh_token = None
    \/ connect_log.before.client_secret = None
    \/ ~connect_log.srv.refresh_ok

\* the last connect() found the bot token rejected with 401
BotTokenRejected ==
    /\ connect_log.called
    /\ connect_log.srv.net
    /\ connect_log.before.oauth_token \notin connect_log.srv.valid

\* C16 as stated: when connect() finds the credential rejected and cannot
\* refresh it, start() is not ended by an exception.
C16_AuthErrorDoesNotEndStart ==
    (BotTokenRejected /\ BotTokenUnrefreshable) => cpc # "crashed"

\* the bot token served both roles when the last connect() was entered
SharedToken ==
    connect_log.before.broadcaster_oauth_token = connect_log.before.oauth_token

\* C17 as stated: when the bot token is rejected with 401 and its refresh
\* succeeds (the broadcaster token, if a separate one is configured, being
\* accepted), connect() raises no token-validation error and the new token is
\* the one held afterwards for every role the old one served.
C17_RefreshedCredentialAdopted ==
    (/\ BotTokenRejected
     /\ ~BotTokenUnrefreshable
     /\ (SharedToken \/ connect_log.before.broadcaster_oauth_token \in connect_log.srv.valid))
    => /\ connect_log.error \notin TokenErrors
       /\ twitch.oauth_token = "bot_1"
       /\ SharedToken => twitch.broadcaster_oauth_token = "bot_1"

\* a network or parse error met the last call: at the streams request, or at
\* the users request when that one was made
ErrorAnswers == {"no_answer", "not_json", "not_object", "entry_not_object", "no_login"}

ProbeMetError ==
    \/ probe.streams \in ErrorAnswers \cup {"http_error"}
    \/ probe.lookup /\ probe.users \in ErrorAnswers

\* C18 as stated: a call that meets a network or parse error returns True,
\* and a call returns False only after a streams answer that was parsed and
\* reports no live stream.
C18_IsChannelLiveFailsOpen ==
    probe.called =>
        /\ ProbeMetError => probe.result = "True"
        /\ probe.result = "False" => probe.streams \in {"not_live", "empty"}

StatusFailures == {"missing", "unreadable", "bad_json"}

C20_NoBlockedMessageSent ==
    \A i \in H :
        history[i].outcome = "sent" =>
            /\ history[i].formatted
                   = truncate(message_format(history[i].author, history[i].text))
            /\ \A k \in DOMAIN blocked_terms :
                   ~Contains(str_lower(history[i].formatted), blocked_terms[k])

\* with a term loaded, one event was dropped for it and another was posted
C20_Witness ==
    /\ blocked_terms = <<Yo>>
    /\ \E i, j \in H :
          /\ history[i].outcome = "blocked"
          /\ history[i].raw = Yo
          /\ history[j].outcome = "sent"
          /\ history[j].delivered

\* the entries, as the channel lists them, of a fetch answered in full
RECURSIVE ListedEntries(_)
ListedEntries(pages) ==
    IF pages = <<>> THEN <<>> ELSE Head(pages).texts \o ListedEntries(Tail(pages))

FetchedInFull(pages) == \A i \in DOMAIN pages : pages[i].status = "200"

\* a consultation of the list that the last fetch loaded in full
Consulted == probe.called /\ probe.fn = "is_message_blocked" /\ FetchedInFull(probe.pages)

\* C21: with the list ["badword", "/f[uo]+bar/i"] the line "this has a FooBar
\* in it" is blocked and the matched fragment is the pattern source
\* "f[uo]+bar".
C21_PatternEntryBlocks ==
    (/\ Consulted
     /\ ListedEntries(probe.pages) = <<BadWord, FooBarEntry>>
     /\ probe.message = FooBarMessage)
        => probe.result = <<TRUE, FooBarSource>>

\* entries that are literal terms: those not starting with "/"
IsLiteral(entry) == entry = <<>> \/ Head(entry) # "/"

\* C22: when a literal entry of the list occurs in the line, letter case
\* aside, the line is blocked and the term returned is the first such literal
\* entry in list order, whatever pattern entries the list holds; when the list
\* is empty the line is not blocked.
C22_FirstLiteralWins ==
    Consulted =>
        LET entries == ListedEntries(probe.pages)
            hits == {i \in DOMAIN entries :
                        /\ IsLiteral(entries[i])
                        /\ Contains(str_lower(probe.message), str_lower(entries[i]))}
        IN /\ hits # {} =>
                  probe.result
                      = <<TRUE, str_lower(entries[CHOOSE i \in hits : \A j \in hits : i <= j])>>
           /\ entries = <<>> => probe.result = <<FALSE, <<>>>>

\* a call of refresh_blocked_terms_if_needed on its own
RefreshCalled == probe.called /\ probe.fn = "refresh_blocked_terms_if_needed"

RefreshEnabled == probe.before.tw.blocked_terms_refresh_interval > 0

RefreshElapsed ==
    probe.t - probe.before.tw.last_blocked_terms_refresh
        >= probe.before.tw.blocked_terms_refresh_interval

\* C23: a call of refresh_blocked_terms_if_needed made with an interval that
\* is zero or negative, or before the interval has elapsed since the last
\* refresh, fetches nothing and leaves the term list and the refresh
\* bookkeeping as they were.
C23_RefreshNoOp ==
    (RefreshCalled /\ (~RefreshEnabled \/ ~RefreshElapsed)) =>
        /\ probe.fetches = 0
        /\ probe.after = probe.before

\* a call 15 s after a refresh, with an interval of 30 s, while the channel
\* lists a term the bot does not hold
C23_Witness ==
    /\ RefreshCalled
    /\ probe.before.tw.blocked_terms_refresh_interval = 30
    /\ probe.before.tw.last_blocked_terms_refresh = 30
    /\ probe.t = 45
    /\ probe.before.terms = <<>>
    /\ probe.pages = OnePage(<<BadWord>>)
    /\ blocked_terms = <<>>

\* C24: a call made with a positive interval that has elapsed fetches the
\* list exactly once if the source's modification time has changed, and not
\* at all if it has not.
C24_ReloadIffMarkerChanged ==
    (RefreshCalled /\ RefreshEnabled /\ RefreshElapsed) =>
        probe.fetches = (IF probe.mtime_changed THEN 1 ELSE 0)

\* C25: with blocked_terms_refresh_minutes positive, every pass of the
\* consumer loop through the periodic refresh call leaves the list loaded
\* less than that many minutes ago: once the interval has elapsed since the
\* last load the call fetches the list again.
C25_ConfiguredIntervalRefreshes ==
    [][(cpc = "loop" /\ cpc' = "gate" /\ blocked_terms_refresh_minutes > 0) =>
           now' - twitch'.last_blocked_terms_refresh < blocked_terms_refresh_minutes * 60]_vars

\* C26: the list is_message_blocked reads is the list held at that moment,
\* and that list is either the complete list of the last fetch, when every
\* page of it was answered with 200, or else the list held before that
\* fetch, whole and unchanged.
C26_TermSetReplacedWhole ==
    probe.called /\ probe.fn \in {"fetch_blocked_terms", "is_message_blocked"} =>
        LET entries == ListedEntries(probe.pages)
        IN /\ FetchedInFull(probe.pages) =>
                  blocked_terms = [i \in DOMAIN entries |-> str_lower(entries[i])]
           /\ ~FetchedInFull(probe.pages) => blocked_terms = probe.before
           /\ probe.fn = "is_message_blocked" => probe.terms = blocked_terms

\* a fetch whose second page was answered 500 left the list ["badword"] in
\* place, and the next line was blocked for it
C26_Witness ==
    /\ probe.called
    /\ probe.fn = "is_message_blocked"
    /\ probe.pages = <<[status |-> "200", texts |-> <<Hi>>], [status |-> "500", texts |-> <<>>]>>
    /\ probe.before = <<BadWord>>
    /\ probe.message = ShoutedMessage
    /\ probe.result = <<TRUE, BadWord>>

Ellipsis == <<".", ".", ".">>

\* C27: the line that goes on to the moderation check and to send_message
\* is at most 500 characters long; a rendered line of more than 500
\* characters becomes its first 497 characters followed by "...", 500
\* characters in all, and any other rendered line is passed on as it is.
C27_TruncationBound ==
    probe.called /\ probe.fn = "truncate" =>
        /\ Len(probe.result) <= TWITCH_MAX_LEN
        /\ Len(probe.rendered) > TWITCH_MAX_LEN =>
               /\ Len(probe.result) = TWITCH_MAX_LEN
               /\ SubSeq(probe.result, TWITCH_MAX_LEN - 2, TWITCH_MAX_LEN) = Ellipsis
               /\ SubSeq(probe.result, 1, TWITCH_MAX_LEN - 3)
                      = SubSeq(probe.rendered, 1, TWITCH_MAX_LEN - 3)
        /\ Len(probe.rendered) <= TWITCH_MAX_LEN => probe.result = probe.rendered

\* a rendered line of 501 characters was cut
C27_Witness ==
    /\ probe.called
    /\ probe.fn = "truncate"
    /\ Len(probe.rendered) = TWITCH_MAX_LEN + 1
    /\ probe.result # probe.rendered

\* C28: collapse_emojis applied to its own result, with the same max_unique,
\* returns that result.
C28_CollapseIdempotent ==
    (probe.called /\ probe.fn = "collapse_emojis" /\ probe.passes >= 2) =>
        probe.result = probe.message

\* C29: the backoff of a reader thread is never below 5 nor above 300, and
\* the n-th backoff sleep since the thread started or last completed a
\* handshake lasts min(5 * 2^(n-1), 300) seconds.
C29_BackoffDoublesToCap ==
    \A t \in Threads :
        /\ threads[t].backoff >= BACKOFF_FLOOR
        /\ threads[t].backoff <= max_backoff
        /\ (threads[t].pc = "backoff_sleep" /\ threads[t].sleeps < MaxSleeps) =>
               threads[t].backoff
                   = Min(BACKOFF_FLOOR * Pow2(threads[t].sleeps - 1), max_backoff)
        /\ (threads[t].pc = "backoff_sleep" /\ threads[t].sleeps = MaxSleeps) =>
               threads[t].backoff
                   >= Min(BACKOFF_FLOOR * Pow2(MaxSleeps - 1), max_backoff)

\* the seventh sleep in a row, the first one that lasts the cap of 300 s
\* instead of 320 s
C29_Witness ==
    \E t \in Threads :
        /\ threads[t].pc = "backoff_sleep"
        /\ threads[t].sleeps = 7
        /\ threads[t].backoff = max_backoff

\* the timestamps kept for author a before the event was processed
KeptTimestamps(a) ==
    Prune(IF a \in DOMAIN user_timestamps THEN user_timestamps[a] ELSE <<>>,
          now - RATE_LIMIT_WINDOW)

\* C30: every dequeued event goes through capitalize, emoji substitution,
\* duplicate check, rate check, render, truncate, moderation check and send
\* in this order and stops at the step that drops it.  The text is the
\* capitalized raw text with the mapping applied afterwards; a duplicate is
\* decided on that text, changes nothing in the spam state and is neither
\* rendered nor sent; a rate-limited event has been recorded by the duplicate
\* check, adds no timestamp and is neither rendered nor sent; only a rendered,
\* truncated line is checked against the blocked terms, and only a line that
\* passed that check is sent.
C30_StagesInOrder ==
    [][Len(history') = Len(history) + 1 =>
          LET e == history'[Len(history')]
              a == e.author
              repeated == /\ a \in DOMAIN user_last_message
                          /\ user_last_message[a][1] = e.text
                          /\ now - user_last_message[a][2] < DUPLICATE_WINDOW
          IN /\ IsPrefix(e.stages, PipelineStages)
             /\ e.text = convert(mappings, capitalize_first(e.raw))
             /\ (e.outcome = "duplicate") <=> repeated
             /\ e.outcome = "duplicate" =>
                    /\ Len(e.stages) = 3
                    /\ UNCHANGED <<user_timestamps, user_last_message>>
                    /\ e.formatted = None
                    /\ e.posts = 0
             /\ e.outcome # "duplicate" => user_last_message'[a] = <<e.text, now>>
             /\ e.outcome = "rate-limited" =>
                    /\ Len(e.stages) = 4
                    /\ user_timestamps'[a] = KeptTimestamps(a)
                    /\ Len(KeptTimestamps(a)) >= rate_limit_max
                    /\ e.formatted = None
                    /\ e.posts = 0
             /\ e.outcome \in {"blocked", "sent"} =>
                    /\ user_timestamps'[a] = Append(KeptTimestamps(a), now)
                    /\ Len(KeptTimestamps(a)) < rate_limit_max
                    /\ e.formatted = truncate(message_format(a, e.text))
             /\ e.outcome = "blocked" =>
                    /\ Len(e.stages) = 7
                    /\ e.posts = 0
                    /\ \E k \in DOMAIN blocked_terms :
                           Contains(str_lower(e.formatted), blocked_terms[k])
             /\ e.outcome = "sent" =>
                    /\ e.stages = PipelineStages
                    /\ e.posts = 1
                    /\ \A k \in DOMAIN blocked_terms :
                           ~Contains(str_lower(e.formatted), blocked_terms[k])
             /\ e.outcome \in {"duplicate", "rate-limited", "blocked", "sent"}]_vars

\* a mapped shortcode was sent uncapitalized, a line was dropped for a
\* blocked term and a repeat was dropped as a duplicate: the author's history
\* holds the two timestamps of the first two
C30_Witness ==
    /\ \E i \in H : /\ history[i].outcome = "sent"
                     /\ history[i].raw = WaveCode
                     /\ history[i].text = WaveSymbol
    /\ \E i \in H : history[i].outcome = "blocked"
    /\ \E i \in H : history[i].outcome = "duplicate"
    /\ Bob \in DOMAIN user_timestamps
    /\ Len(user_timestamps[Bob]) = 2

\* C31: after a poll response without a new continuation the thread puts the
\* events of that response on the queue one by one, in order, and then
\* leaves the poll loop; if the reader is running it sleeps the backoff and
\* goes back to locating, otherwise it goes to the loop test and exits.  A
\* poll is only issued from the poll loop, which is entered only after a
\* handshake or after the wait that follows a response with a continuation.
C31_SessionEndsWithoutContinuation ==
    [][\A t \in Threads :
          LET a == threads[t]
              b == threads'[t]
          IN /\ (a.pc = "putting" /\ ~a.new_continuation /\ b # a) =>
                    IF a.batch # <<>>
                    THEN /\ b = [a EXCEPT !.batch = Tail(a.batch)]
                         /\ queue' = Append(queue, Head(a.batch))
                    ELSE /\ b.pc = "after_try"
                         /\ queue' = queue
             /\ (a.pc = "after_try" /\ b # a) =>
                    b.pc = (IF yt_running THEN "backoff_sleep" ELSE "loop_top")
             /\ (a.pc = "backoff_sleep" /\ b # a) => b.pc = "loop_top"
             /\ (a.pc = "loop_top" /\ b # a) =>
                    b.pc = (IF yt_running THEN "locating" ELSE "exit")
             /\ (b.pc = "polling" /\ a.pc # "polling") => a.pc = "poll_top"
             /\ (b.pc = "poll_top" /\ a.pc # "poll_top") =>
                    a.pc \in {"handshaking", "poll_wait"}
             /\ (b.pc = "poll_wait" /\ a.pc \notin {"poll_wait", "poll_sleeping"}) =>
                    (a.pc = "putting" /\ a.new_continuation /\ a.batch = <<>>)]_vars

\* the first response of a session carried one event and no continuation:
\* the event is on the queue and the thread sleeps its first backoff
C31_Witness ==
    \E t \in Threads :
        /\ yt_running
        /\ threads[t].pc = "backoff_sleep"
        /\ threads[t].sleeps = 1
        /\ threads[t].pollFails = 0
        /\ threads[t].parsed = 1
        /\ ~threads[t].new_continuation
        /\ \E i \in DOMAIN queue : queue[i].src = t /\ queue[i].seq = 1

\* a call of the spam guard on its own was just made
JustCalled(fn) == probe'.called /\ probe'.fn = fn /\ [probe' EXCEPT !.cleaned = {}] # [probe EXCEPT !.cleaned = {}]

Others(d, a) == [u \in (DOMAIN d) \ {a} |-> d[u]]

\* C32: _is_rate_limited leaves the author's timestamps pruned to the window
\* and appends the current time exactly when it returns False; no other
\* author's history changes.  An attempt is allowed whenever fewer than K
\* attempts of the author were allowed before, or the K-th most recent
\* allowed one is more than RATE_LIMIT_WINDOW old, whatever attempts were
\* blocked in between.
C32_BlockedAttemptsLeaveNoTrace ==
    [][JustCalled("is_rate_limited") =>
          LET a == probe'.author
              before == probe'.allowed_before
          IN /\ a \in DOMAIN user_timestamps'
             /\ user_timestamps'[a] = (IF probe'.result THEN KeptTimestamps(a)
                                       ELSE Append(KeptTimestamps(a), now))
             /\ Others(user_timestamps', a) = Others(user_timestamps, a)
             /\ user_last_message' = user_last_message
             /\ Len(before) < rate_limit_max => ~probe'.result
             /\ (Len(before) = rate_limit_max /\ now > before[1] + RATE_LIMIT_WINDOW) =>
                    ~probe'.result]_vars

\* three attempts were allowed at 0, 15 and 15 s, one was blocked at 15 s, and
\* the attempt at 45 s was allowed
C32_Witness ==
    /\ probe.called
    /\ probe.fn = "is_rate_limited"
    /\ probe.author = Alice
    /\ probe.time = 45
    /\ ~probe.result
    /\ probe.allowed_before = <<0, 15, 15>>
    /\ Alice \in DOMAIN probe.blocked
    /\ probe.blocked[Alice] = 15

\* C33: _is_duplicate returns True exactly when a last message is stored for
\* the author, its text is the new text and its age is strictly less than
\* DUPLICATE_WINDOW; then the stored pair stays as it is, otherwise it becomes
\* (text, now); the entries of the other authors stay as they are.
C33_DuplicateVerdictAndEffect ==
    [][JustCalled("is_duplicate") =>
          LET a == probe'.author
              m == probe'.message
              stored == a \in DOMAIN user_last_message
          IN /\ probe'.result <=> (/\ stored
                                    /\ user_last_message[a][1] = m
                                    /\ now - user_last_message[a][2] < DUPLICATE_WINDOW)
             /\ probe'.result => user_last_message' = user_last_message
             /\ ~probe'.result => (/\ a \in DOMAIN user_last_message'
                                   /\ user_last_message'[a] = <<m, now>>)
             /\ Others(user_last_message', a) = Others(user_last_message, a)
             /\ user_timestamps' = user_timestamps]_vars

\* Alice repeats at 15 s the text stored for her at 0 s while an entry of Bob
\* is stored: the call returns True and her pair still carries 0 s
C33_Witness ==
    /\ probe.called
    /\ probe.fn = "is_duplicate"
    /\ probe.author = Alice
    /\ probe.message = Hi
    /\ probe.time = 15
    /\ probe.result
    /\ Alice \in DOMAIN user_last_message
    /\ user_last_message[Alice] = <<Hi, 0>>
    /\ Bob \in DOMAIN user_last_message

\* C36: whatever _cleanup_spam_state calls are inserted between the calls of
\* _is_duplicate and _is_rate_limited, each call returns what it returns on
\* dictionaries that received the same calls and were never cleaned up.
C36_CleanupIsTransparent ==
    probe.called => probe.result = probe.uncleaned_result

\* _is_rate_limited was called for Alice after a cleanup had removed her
\* timestamps, which the dictionary never cleaned up still holds
C36_Witness ==
    /\ probe.called
    /\ probe.fn = "is_rate_limited"
    /\ probe.author = Alice
    /\ probe.time = now
    /\ Alice \in probe.cleaned
    /\ probe.uncleaned_last_message = EmptyDict
    /\ Alice \in DOMAIN user_timestamps
    /\ user_timestamps[Alice] = <<now>>
    /\ Alice \in DOMAIN probe.uncleaned_timestamps
    /\ probe.uncleaned_timestamps[Alice] = user_timestamps[Alice]

\* C34: between any two calls of send_message made by the consumer loop the
\* pacing sleep has been executed: the iteration that made the earlier call
\* went on to the sleep, whatever events were dropped after it.
C34_PacingSleepBetweenSends ==
    \A i \in H : \A j \in H :
        (i < j /\ history[i].posts > 0 /\ history[j].posts > 0) =>
            /\ history[i].paced
            /\ \E k \in i..(j - 1) : history[k].paced

\* two lines were sent and an event was dropped between them
C34_Witness ==
    \E i \in H : \E j \in H : \E k \in H :
        /\ i < k /\ k < j
        /\ history[i].posts > 0
        /\ history[j].posts > 0
        /\ history[k].outcome = "duplicate"
        /\ ~history[k].paced

\* C35: once stop() has been called and start() is not called again, every
\* reader thread, wherever it is, eventually leaves _read_loop by returning,
\* provided its network calls and sleeps return.
C35_ReaderExitsAfterStop ==
    \A t \in 1..MaxThreads :
        (cpc = "stopped" /\ t \in Threads) ~> (t \in Threads /\ threads[t].pc = "exit")

\* the relay was stopped and the reader thread, which had polled and put an
\* event, has left its loop
C35_Witness ==
    /\ cpc = "stopped"
    /\ ~yt_running
    /\ Threads # {}
    /\ \A t \in Threads : threads[t].pc = "exit"
    /\ queue # <<>>

C38_ConnectReturnsAfterOwnWelcome ==
    (probe.called /\ probe.fn = "connect" /\ probe.returned) => probe.returned_welcomed

\* C39 as stated: from stop() until the next start() the reader adds no
\* event to the queue, whatever call was in flight when stop() was issued.
C39_NoPutWhileStopped ==
    [][(~yt_running /\ ~yt_running') => Len(queue') <= Len(queue)]_vars

TerminalOutcomes == {"sent", "duplicate", "rate-limited", "blocked"}

\* C40: while the relay runs and the stream stays live, every event on the
\* queue is eventually dequeued and ends in exactly one of the outcomes sent,
\* duplicate, rate-limited, blocked: every record carries one of the four
\* outcomes and no event has two records, whatever leaves the queue is its
\* oldest event and gets its record in the same iteration, and a queue that
\* holds events is eventually drained, the housekeeping at the head of each
\* iteration notwithstanding.
C40_EveryQueuedEventIsProcessed ==
    /\ [](\A i \in H : /\ history[i].outcome \in TerminalOutcomes
                        /\ \A j \in H : (/\ history[j].src = history[i].src
                                          /\ history[j].seq = history[i].seq) => j = i)
    /\ [][Len(queue') < Len(queue) =>
              /\ queue' = Tail(queue)
              /\ Len(history') = Len(history) + 1
              /\ history'[Len(history')].src = Head(queue).src
              /\ history'[Len(history')].seq = Head(queue).seq]_vars
    /\ (queue # <<>>) ~> (queue = <<>>)

\* events were processed before and after a pause in which the live check
\* and the cleanup came due and ran; nothing is left on the queue
C40_Witness ==
    /\ last_twitch_live_check > 0
    /\ last_cleanup > 0
    /\ queue = <<>>
    /\ \E i \in H : history[i].time < last_cleanup
    /\ \E i \in H : history[i].time >= last_cleanup /\ history[i].outcome = "sent"

====
